---- MODULE Spec2Model ----
(***************************************************************************)
(* Model of the selfie.fm content-to-voice pipeline (backend/app.py,       *)
(* backend/script_writer.py, backend/scraper_enhanced.py,                  *)
(* backend/voice_clone.py).                                                *)
(*                                                                         *)
(* Python strings are sequences of one-character strings; None is the      *)
(* one-element sequence <<"None">>, which no string of characters equals.  *)
(***************************************************************************)
EXTENDS Integers, Sequences, FiniteSets, TLC

VARIABLES
    content,        \* text-generation provider's response content (script_writer)
    scripts_list,   \* result of ScriptWriter._parse_multiple_scripts
    gen_state,      \* "idle" before the parse, "ok" after it
    elevenlabs_key, \* os.getenv('ELEVENLABS_API_KEY') is set
    user,           \* the owner's row: voice identity and welcome-message slot
    link,           \* the link's row: script variations, selection, audio slot
    files,          \* paths that exist under the audio root
    clock,          \* datetime.now().timestamp(), read when a file is named
    last,           \* the last request: handler, response, what it did
    slot_history,   \* which requests have touched the link's audio slot so far
    script_writer,  \* the ScriptWriter instance: the two keys and the provider
    fetched,        \* what the last content fetch got from the network
    scraped,        \* the dict the last scrape_link_content returned
    called,         \* text-generation provider the last request called
    body,           \* payload of the last response (scripts or selected text)
    cache_url,      \* the URL link.scraped_content was extracted from
    call,           \* the remote call the request in progress is waiting on
    inflight,       \* concurrent generate-audio requests and their commit order
    ran,            \* the last pipeline step, its inputs, how often it ran in a row
    login_attempts, \* auth.login_attempts: the (attempts, first_attempt) of an email
    utcnow,         \* datetime.utcnow(), in minutes
    accounts,       \* the users rows by email: password_hash, last_login
    login_reply,    \* the last login request and its response
    windows         \* per email: when its window opened, the calls let through

parse_vars == <<content, scripts_list, gen_state>>

pipeline_vars == <<elevenlabs_key, user, link, files, clock, last, slot_history>>

script_vars == <<script_writer, fetched, scraped, called, body, cache_url>>

auth_vars == <<login_attempts, utcnow, accounts, login_reply, windows>>

service_vars == <<call, inflight, ran, auth_vars>>

vars == <<parse_vars, pipeline_vars, script_vars, service_vars>>

----------------------------------------------------------------------------
(* Bounds of the model *)

\* pieces (marker, letter, newline) a provider response is built from
MaxPieces == 7
\* pieces of a response that may also hold spaces, quotes and meta-commentary
MaxMixed == 4
\* timestamps read: the number of files the requests of one run may name
MaxClock == 3
\* how far the word counts of a page go above 0 and around the preview limit
MaxExtraWords == 1
\* seconds a request is followed while it waits on a remote call
MaxWait == 31
\* minutes the login attempts are followed
MaxNow == 16

----------------------------------------------------------------------------
(* Python values and string primitives *)

None == <<"None">>

Truthy(v) == v # None /\ v # <<>>

Min(a, b) == IF a < b THEN a ELSE b

Max(a, b) == IF a > b THEN a ELSE b

SetMin(S) == CHOOSE x \in S : \A y \in S : x <= y

SetMax(S) == CHOOSE x \in S : \A y \in S : x >= y

Whitespace == {" ", "\n", "\t"}

Digits == {"0", "1", "2", "3", "4", "5", "6", "7", "8", "9"}

Quotes == {"\"", "'"}

\* s.strip(chars)
StripSet(s, cs) ==
    LET keep == {i \in 1..Len(s) : s[i] \notin cs}
    IN  IF keep = {} THEN <<>> ELSE SubSeq(s, SetMin(keep), SetMax(keep))

\* s.strip()
\* a plausible slip: the text is tested as it is, not trimmed
NoStrip(s) == s

Strip(s) == StripSet(s, Whitespace)

\* s.startswith(p)
StartsWith(s, p) == Len(s) >= Len(p) /\ SubSeq(s, 1, Len(p)) = p

\* index just past the run of characters of cs that starts at i
RunEnd(s, i, cs) ==
    CHOOSE j \in i..(Len(s) + 1) :
        /\ \A k \in i..(j - 1) : s[k] \in cs
        /\ j = Len(s) + 1 \/ s[j] \notin cs

\* s.split(sep), sep non-empty
RECURSIVE SplitOn(_, _)
SplitOn(s, sep) ==
    LET m == Len(sep)
        hits == {i \in 1..(Len(s) - m + 1) : SubSeq(s, i, i + m - 1) = sep}
    IN  IF hits = {} THEN <<s>>
        ELSE LET i == SetMin(hits)
             IN  <<SubSeq(s, 1, i - 1)>> \o SplitOn(SubSeq(s, i + m, Len(s)), sep)

\* s.split(): the words left of a whitespace character followed by the words
\* right of it, the character taken nearest the middle to keep the recursion
\* shallow
RECURSIVE Words(_)
Words(s) ==
    LET ws == {i \in 1..Len(s) : s[i] \in Whitespace}
        mid == (Len(s) + 1) \div 2
        right == {i \in ws : i >= mid}
        m == IF right # {} THEN SetMin(right) ELSE SetMax(ws)
    IN  IF ws = {} THEN (IF s = <<>> THEN <<>> ELSE <<s>>)
        ELSE Words(SubSeq(s, 1, m - 1)) \o Words(SubSeq(s, m + 1, Len(s)))

\* sep.join(parts), by halves
RECURSIVE Join(_, _)
Join(parts, sep) ==
    LET n == Len(parts)
        h == n \div 2
    IN  IF n = 0 THEN <<>>
        ELSE IF n = 1 THEN parts[1]
        ELSE Join(SubSeq(parts, 1, h), sep) \o sep
                 \o Join(SubSeq(parts, h + 1, n), sep)

\* [p.strip() for p in parts if p.strip()]
StrippedNonEmpty(parts) ==
    SelectSeq([k \in 1..Len(parts) |-> Strip(parts[k])], LAMBDA p : p # <<>>)

----------------------------------------------------------------------------
(* script_writer.py: parsing the provider's response *)

ScriptUpper == <<"S", "C", "R", "I", "P", "T">>

ScriptLower == <<"s", "c", "r", "i", "p", "t">>

\* re.match(r'SCRIPT\s+\d+:', s[i-1:], re.IGNORECASE): the index just past the
\* match that starts at i, or 0 when there is none
MarkerEnd(s, i) ==
    LET n == Len(s)
        w == i + Len(ScriptUpper)
    IN  IF w - 1 > n THEN 0
        ELSE IF \E k \in 1..Len(ScriptUpper) :
                    s[i + k - 1] \notin {ScriptUpper[k], ScriptLower[k]} THEN 0
        ELSE LET d == RunEnd(s, w, Whitespace)
                 c == RunEnd(s, d, Digits)
             IN  IF d = w \/ c = d \/ c > n THEN 0
                 ELSE IF s[c] # ":" THEN 0
                 ELSE c + 1

\* re.split(r'SCRIPT\s+\d+:', s, flags=re.IGNORECASE)
RECURSIVE ReSplitMarkers(_)
ReSplitMarkers(s) ==
    LET hits == {i \in 1..Len(s) : MarkerEnd(s, i) > 0}
    IN  IF hits = {} THEN <<s>>
        ELSE LET i == SetMin(hits)
             IN  <<SubSeq(s, 1, i - 1)>>
                     \o ReSplitMarkers(SubSeq(s, MarkerEnd(s, i), Len(s)))

MetaPrefixes ==
    { <<"H", "e", "r", "e">>,
      <<"N", "o", "t", "e", ":">>,
      <<"S", "c", "r", "i", "p", "t", ":">>,
      <<"R", "e", "m", "e", "m", "b", "e", "r">> }

CleanWordLimit == 55

CleanWordKeep == 50

Ellipsis == <<".", ".", ".">>

\* ScriptWriter._clean_script
clean_script(script) ==
    LET unquoted == StripSet(script, Quotes)
        lines == SplitOn(unquoted, <<"\n">>)
        stripped == [k \in 1..Len(lines) |-> Strip(lines[k])]
        cleaned_lines ==
            SelectSeq(stripped,
                      LAMBDA line : line # <<>>
                                    /\ ~(\E p \in MetaPrefixes : StartsWith(line, p)))
        joined == Join(cleaned_lines, <<" ">>)
        words == Words(joined)
    IN  IF Len(words) > CleanWordLimit
        THEN Join(SubSeq(words, 1, CleanWordKeep), <<" ">>) \o Ellipsis
        ELSE joined

FallbackPrefixLen == 50

FallbackWordCount == 10

CheckOut == <<"C", "h", "e", "c", "k", " ", "o", "u", "t", " ">>

ThisAmazingOffer ==
    <<"t", "h", "i", "s", " ", "a", "m", "a", "z", "i", "n", "g", " ",
      "o", "f", "f", "e", "r">>

ClickToLearnMore ==
    <<".", ".", ".", " ", "C", "l", "i", "c", "k", " ", "t", "o", " ",
      "l", "e", "a", "r", "n", " ", "m", "o", "r", "e", "!">>

\* the two splits of _parse_multiple_scripts: markers first, blank lines when
\* the markers gave fewer than expected_count parts
SplitParts(scripts_text, expected_count) ==
    LET parts == StrippedNonEmpty(ReSplitMarkers(scripts_text))
    IN  IF Len(parts) < expected_count
        THEN StrippedNonEmpty(SplitOn(scripts_text, <<"\n", "\n">>))
        ELSE parts

\* one entry of the for loop of _parse_multiple_scripts
ScriptEntry(script_text) ==
    LET script == clean_script(script_text)
    IN  [script |-> script, word_count |-> Len(Words(script))]

\* the fallback entry the while loop of _parse_multiple_scripts appends
FallbackEntry(parts) ==
    [ script |->
          CheckOut
              \o (IF parts # <<>>
                  THEN SubSeq(parts[1], 1, Min(FallbackPrefixLen, Len(parts[1])))
                  ELSE ThisAmazingOffer)
              \o ClickToLearnMore,
      word_count |-> FallbackWordCount ]

\* a plausible slip: 'if' for 'while', one fallback entry at most
PadScriptsOnce(scripts, parts, expected_count) ==
    IF Len(scripts) < expected_count
    THEN Append(scripts, FallbackEntry(parts))
    ELSE scripts

\* while len(scripts) < expected_count: scripts.append(fallback)
PadScripts(scripts, parts, expected_count) ==
    scripts \o [k \in 1..(expected_count - Len(scripts)) |-> FallbackEntry(parts)]

\* ScriptWriter._parse_multiple_scripts
parse_multiple_scripts(scripts_text, expected_count) ==
    LET parts == SplitParts(scripts_text, expected_count)
        taken == SubSeq(parts, 1, Min(expected_count, Len(parts)))
        scripts == [k \in 1..Len(taken) |-> ScriptEntry(taken[k])]
    IN  PadScripts(scripts, parts, expected_count)

NumOptions == 3

----------------------------------------------------------------------------
(* Provider responses the parse is applied to *)

Marker == <<"S", "C", "R", "I", "P", "T", " ", "1", ":">>

BasePieces == {Marker, <<"a">>, <<"\n">>}

MixedPieces == BasePieces \cup {<<" ">>, <<"\"">>, <<"H", "e", "r", "e">>}

RECURSIVE Flatten(_)
Flatten(ps) == IF ps = <<>> THEN <<>> ELSE Head(ps) \o Flatten(Tail(ps))

PieceSeqs ==
    UNION {[1..n -> BasePieces] : n \in 0..MaxPieces}
        \cup UNION {[1..n -> MixedPieces] : n \in 0..MaxMixed}

ParseIdle ==
    /\ content = <<>>
    /\ scripts_list = <<>>
    /\ gen_state = "idle"

ParseInit ==
    /\ \E ps \in PieceSeqs : content = Flatten(ps)
    /\ scripts_list = <<>>
    /\ gen_state = "idle"

\* the tail of generate_pitch_scripts once the provider has answered:
\* scripts_text = content.strip(); _parse_multiple_scripts(scripts_text, 3)
ParseResponse ==
    /\ gen_state = "idle"
    /\ scripts_list' = parse_multiple_scripts(Strip(content), NumOptions)
    /\ gen_state' = "ok"
    /\ UNCHANGED <<content, pipeline_vars, script_vars, service_vars>>

----------------------------------------------------------------------------
(* scraper_enhanced.py: content extraction and classification *)

UpperCase ==
    <<"A", "B", "C", "D", "E", "F", "G", "H", "I", "J", "K", "L", "M",
      "N", "O", "P", "Q", "R", "S", "T", "U", "V", "W", "X", "Y", "Z">>

LowerCase ==
    <<"a", "b", "c", "d", "e", "f", "g", "h", "i", "j", "k", "l", "m",
      "n", "o", "p", "q", "r", "s", "t", "u", "v", "w", "x", "y", "z">>

\* s.lower(), on ASCII letters
Lower(s) ==
    [i \in 1..Len(s) |->
        IF \E k \in 1..26 : UpperCase[k] = s[i]
        THEN LowerCase[CHOOSE k \in 1..26 : UpperCase[k] = s[i]]
        ELSE s[i]]

\* sub in s
Contains(s, sub) ==
    \E i \in 1..(Len(s) - Len(sub) + 1) : SubSeq(s, i, i + Len(sub) - 1) = sub

\* (x or '')
OrEmpty(v) == IF Truthy(v) THEN v ELSE <<>>

\* s.splitlines(), on "\n" line ends: no empty last line
SplitLines(s) ==
    LET ls == SplitOn(s, <<"\n">>)
    IN  IF ls[Len(ls)] = <<>> THEN SubSeq(ls, 1, Len(ls) - 1) ELSE ls

RECURSIVE Concat(_)
Concat(seqs) == IF seqs = <<>> THEN <<>> ELSE Head(seqs) \o Concat(Tail(seqs))

\* the result dict scrape_page_content starts from and returns on an error
EmptyResult ==
    [ title |-> None,
      meta_description |-> None,
      preview_text |-> None,
      full_content |-> None ]

\* "Clean up text": lines stripped, split on two spaces, chunks stripped,
\* the non-empty chunks joined by one space
CleanText(text) ==
    LET raw == SplitLines(text)
        lines == [k \in 1..Len(raw) |-> Strip(raw[k])]
        phrases == Concat([k \in 1..Len(lines) |-> SplitOn(lines[k], <<" ",
            " ">>)])
    IN  Join(StrippedNonEmpty(phrases), <<" ">>)

PreviewWords == 200

\* a plausible slip: the text is cut from the 200th word on
PreviewTextOffByOne(text) ==
    LET words == Words(text)
    IN  IF Len(words) >= PreviewWords
        THEN Join(SubSeq(words, 1, PreviewWords), <<" ">>) \o Ellipsis
        ELSE text

\* "Extract first 200 words"
PreviewText(text) ==
    LET words == Words(text)
    IN  IF Len(words) > PreviewWords
        THEN Join(SubSeq(words, 1, PreviewWords), <<" ">>) \o Ellipsis
        ELSE text

FetchFailures == {"timeout", "connection_error", "http_error"}

\* soup.get_text(): the text nodes in document order, the title tag's first
GetText(page) ==
    IF page.title = None THEN page.text
    ELSE page.title \o <<"\n">> \o page.text

\* a plausible slip: the result of a failed fetch carries an empty text
\* instead of nothing
EmptyTextOnFailure(page) ==
    IF page.status # "ok"
    THEN [EmptyResult EXCEPT !.preview_text = <<>>, !.full_content = <<>>]
    ELSE LET text == CleanText(GetText(page))
         IN  [ title |-> IF page.title = None THEN None ELSE Strip(page.title),
               meta_description |->
                   IF page.meta = None THEN None ELSE Strip(page.meta),
               preview_text |-> PreviewText(text),
               full_content |-> text ]

\* EnhancedScraper.scrape_page_content, page being what requests.get and
\* BeautifulSoup gave: status, the title tag's text (None without a tag), the
\* description meta tag's content (None without a tag), the text of the rest
\* of the document
scrape_page_content(page) ==
    IF page.status # "ok" THEN EmptyResult
    ELSE LET text == CleanText(GetText(page))
         IN  [ title |-> IF page.title = None THEN None ELSE Strip(page.title),
               meta_description |->
                   IF page.meta = None THEN None ELSE Strip(page.meta),
               preview_text |-> PreviewText(text),
               full_content |-> text ]

Course == <<"c", "o", "u", "r", "s", "e">>
Coaching == <<"c", "o", "a", "c", "h", "i", "n", "g">>
Product == <<"p", "r", "o", "d", "u", "c", "t">>
Newsletter == <<"n", "e", "w", "s", "l", "e", "t", "t", "e", "r">>
Blog == <<"b", "l", "o", "g">>
Video == <<"v", "i", "d", "e", "o">>
Social == <<"s", "o", "c", "i", "a", "l">>
Website == <<"w", "e", "b", "s", "i", "t", "e">>

LinkTypes == {Course, Coaching, Product, Newsletter, Blog, Video, Social,
    Website}

CourseWords ==
    { <<"c", "o", "u", "r", "s", "e">>, <<"l", "e", "a", "r", "n">>, <<"l",
        "e", "s", "s", "o", "n">>, <<"m", "o", "d", "u", "l", "e">>, <<"c",
        "u", "r", "r", "i", "c", "u", "l", "u", "m">>, <<"t", "r", "a", "i",
        "n", "i", "n", "g">> }

CoachingWords ==
    { <<"c", "o", "a", "c", "h", "i", "n", "g">>, <<"m", "e", "n", "t", "o",
        "r", "s", "h", "i", "p">>, <<"1", "-", "o", "n", "-", "1">>, <<"o",
        "n", "e", "-", "o", "n", "-", "o", "n", "e">>, <<"c", "o", "n", "s",
        "u", "l", "t", "a", "t", "i", "o", "n">> }

ProductWords ==
    { <<"p", "r", "o", "d", "u", "c", "t">>, <<"b", "u", "y">>, <<"s", "h",
        "o", "p">>, <<"s", "t", "o", "r", "e">>, <<"p", "u", "r", "c", "h",
        "a", "s", "e">>, <<"p", "r", "i", "c", "e">>, <<"$">>, <<"c", "a",
        "r", "t">> }

NewsletterWords ==
    { <<"n", "e", "w", "s", "l", "e", "t", "t", "e", "r">>, <<"s", "u", "b",
        "s", "c", "r", "i", "b", "e">>, <<"e", "m", "a", "i", "l", " ", "l",
        "i", "s", "t">>, <<"w", "e", "e", "k", "l", "y", " ", "d", "i", "g",
        "e", "s", "t">> }

BlogWords == { <<"b", "l", "o", "g">>, <<"a", "r", "t", "i", "c", "l", "e">>,
    <<"p", "o", "s", "t">>, <<"r", "e", "a", "d">> }

VideoHosts == { <<"y", "o", "u", "t", "u", "b", "e", ".", "c", "o", "m">>,
    <<"v", "i", "m", "e", "o", ".", "c", "o", "m">> }

social_platforms ==
    { <<"i", "n", "s", "t", "a", "g", "r", "a", "m">>, <<"t", "w", "i", "t",
        "t", "e", "r">>, <<"f", "a", "c", "e", "b", "o", "o", "k">>, <<"l",
        "i", "n", "k", "e", "d", "i", "n">>, <<"t", "i", "k", "t", "o",
        "k">>, <<"y", "o", "u", "t", "u", "b", "e">> }

\* any(word in s for word in words)
AnyIn(words, s) == \E w \in words : Contains(s, w)

\* combined = f"{url_lower} {title} {description} {preview}"
Combined(url, result) ==
    Lower(url) \o <<" ">> \o Lower(OrEmpty(result.title)) \o <<" ">>
        \o Lower(OrEmpty(result.meta_description)) \o <<" ">>
        \o Lower(OrEmpty(result.preview_text))

\* the test identify_link_type makes for a type
Matches(type, url, result) ==
    LET combined == Combined(url, result)
    IN  CASE type = Course -> AnyIn(CourseWords, combined)
          [] type = Coaching -> AnyIn(CoachingWords, combined)
          [] type = Product -> AnyIn(ProductWords, combined)
          [] type = Newsletter -> AnyIn(NewsletterWords, combined)
          [] type = Blog -> AnyIn(BlogWords, combined)
          [] type = Video -> AnyIn(VideoHosts,
              Lower(url)) \/ Contains(combined, Video)
          [] type = Social -> AnyIn(social_platforms, Lower(url))
          [] type = Website -> TRUE

\* a plausible slip: the product test is made before the course test
identify_link_type_product_first(url, result) ==
    IF Matches(Product, url, result) THEN Product
    ELSE IF Matches(Course, url, result) THEN Course
    ELSE IF Matches(Coaching, url, result) THEN Coaching
    ELSE IF Matches(Newsletter, url, result) THEN Newsletter
    ELSE IF Matches(Blog, url, result) THEN Blog
    ELSE IF Matches(Video, url, result) THEN Video
    ELSE IF Matches(Social, url, result) THEN Social
    ELSE Website

\* EnhancedScraper.identify_link_type
identify_link_type(url, result) ==
    IF Matches(Course, url, result) THEN Course
    ELSE IF Matches(Coaching, url, result) THEN Coaching
    ELSE IF Matches(Product, url, result) THEN Product
    ELSE IF Matches(Newsletter, url, result) THEN Newsletter
    ELSE IF Matches(Blog, url, result) THEN Blog
    ELSE IF Matches(Video, url, result) THEN Video
    ELSE IF Matches(Social, url, result) THEN Social
    ELSE Website

SummaryPreviewWords == 100

TitleLabel == <<"T", "i", "t", "l", "e", ":", " ">>
DescriptionLabel == <<"D", "e", "s", "c", "r", "i", "p", "t", "i", "o", "n",
    ":", " ">>
LinkTypeLabel == <<"L", "i", "n", "k", " ", "T", "y", "p", "e", ":", " ">>
PreviewLabel == <<"P", "r", "e", "v", "i", "e", "w", ":", " ">>

\* a plausible slip: a summary is made only when something was extracted
create_context_summary_of_content(result, link_type) ==
    IF ~Truthy(result.title) /\ ~Truthy(result.meta_description)
          /\ ~Truthy(result.preview_text)
    THEN <<>>
    ELSE Join(<<TitleLabel \o OrEmpty(result.title),
                LinkTypeLabel \o link_type>>, <<"\n">>)

\* EnhancedScraper.create_context_summary
create_context_summary(result, link_type) ==
    LET words == Words(OrEmpty(result.preview_text))
        preview == Join(SubSeq(words, 1, Min(SummaryPreviewWords,
            Len(words))), <<" ">>)
        parts ==
            (IF Truthy(result.title)
                THEN <<TitleLabel \o result.title>> ELSE <<>>)
            \o (IF Truthy(result.meta_description)
                THEN <<DescriptionLabel \o result.meta_description>> ELSE <<>>)
            \o <<LinkTypeLabel \o link_type>>
            \o (IF Truthy(result.preview_text)
                THEN <<PreviewLabel \o preview>> ELSE <<>>)
    IN  Join(parts, <<"\n">>)

\* scrape_link_content: the content dict with link_type and context_summary
scrape_link_content(url, page) ==
    LET result == scrape_page_content(page)
        link_type == identify_link_type(url, result)
    IN  [ title |-> result.title,
          meta_description |-> result.meta_description,
          preview_text |-> result.preview_text,
          full_content |-> result.full_content,
          link_type |-> link_type,
          context_summary |-> create_context_summary(result, link_type) ]

----------------------------------------------------------------------------
(* app.py: the rows, the audio root and the last response *)

NewUser ==
    [ voice_clone_id |-> None,
      voice_sample_path |-> None,
      welcome_message_audio |-> None,
      welcome_message_text |-> None ]

UrlPlain == <<"h", "t", "t", "p", "s", ":", "/", "/", "x", ".", "i", "o">>

UrlShop == <<"h", "t", "t", "p", "s", ":", "/", "/", "x", ".", "i", "o", "/",
    "S", "h", "o", "p">>

UrlYouTube == <<"h", "t", "t", "p", "s", ":", "/", "/", "Y", "o", "u", "T",
    "u", "b", "e", ".", "c", "o", "m", "/", "v">>

UrlInstagram == <<"h", "t", "t", "p", "s", ":", "/", "/", "i", "n", "s", "t",
    "a", "g", "r", "a", "m", ".", "c", "o", "m", "/", "u">>

Urls == {UrlPlain, UrlShop, UrlYouTube, UrlInstagram}

TitleA == <<"A">>

TitleB == <<"B">>

NewLink ==
    [ url |-> UrlPlain,
      title |-> TitleA,
      description |-> None,
      scraped_content |-> None,
      script_brief |-> None,
      script_standard |-> None,
      script_conversational |-> None,
      selected_script |-> None,
      voice_message_text |-> None,
      voice_message_audio |-> None ]

\* a plausible slip: the file is named after the link alone
LinkVoicePathFixed(ts, ext) == <<"link_voices", "link_1", 0, ext>>

\* f"link_voices/link_{link_id}_{datetime.now().timestamp()}.{ext}"
LinkVoicePath(ts, ext) == <<"link_voices", "link_1", ts, ext>>

\* f"voice_samples/{username}_sample_{datetime.now().timestamp()}.mp3"
VoiceSamplePath(ts) == <<"voice_samples", "u_sample", ts, "mp3">>

\* the files of the link's audio slot
SlotFiles(fs) == {f \in fs : f[2] = "link_1"}

NoRequest ==
    [ op |-> "none", status |-> 0, detail |-> "", env |-> "",
      unlink |-> "none", path |-> None, req |-> <<"", <<>>>> ]

\* a response: env is the provider's outcome ("" when no provider call was
\* made), unlink the outcome of removing the slot's previous file, path the
\* file this request wrote, req the uploaded content type and sample sizes
Response(op, status, detail, env, unlink, path, req) ==
    [ op |-> op, status |-> status, detail |-> detail, env |-> env,
      unlink |-> unlink, path |-> path, req |-> req ]

\* a plausible slip: the selection is reset before the request is rejected
RejectClearingSelection(op, status, detail, req) ==
    /\ last' = Response(op, status, detail, "", "none", None, req)
    /\ link' = [link EXCEPT !.selected_script = None]
    /\ UNCHANGED <<elevenlabs_key, user, files, clock, slot_history>>

\* raise HTTPException(status, detail) before anything was written
Reject(op, status, detail, req) ==
    /\ last' = Response(op, status, detail, "", "none", None, req)
    /\ UNCHANGED <<elevenlabs_key, user, link, files, clock, slot_history>>

\* a plausible slip: the Anthropic key is looked at first
ScriptWriterAnthropicFirst(openai_api_key, anthropic_api_key) ==
    [ openai_api_key |-> openai_api_key,
      anthropic_api_key |-> anthropic_api_key,
      provider |-> IF anthropic_api_key THEN "anthropic"
                   ELSE IF openai_api_key THEN "openai"
                   ELSE "none" ]

\* ScriptWriter.__init__: the keys read from the environment and the provider
\* chosen from them
ScriptWriter(openai_api_key, anthropic_api_key) ==
    [ openai_api_key |-> openai_api_key,
      anthropic_api_key |-> anthropic_api_key,
      provider |-> IF openai_api_key THEN "openai"
                   ELSE IF anthropic_api_key THEN "anthropic"
                   ELSE "none" ]

\* no scrape_link_content call made
NotScraped ==
    [ title |-> None,
      meta_description |-> None,
      preview_text |-> None,
      full_content |-> None,
      link_type |-> None,
      context_summary |-> None ]

\* no content fetch made
NoPage == [status |-> "none", title |-> None, meta |-> None, text |-> <<>>]

\* no request in progress
NoCall ==
    [ op |-> "none", at |-> "idle", waited |-> 0, page |-> NoPage,
      outcome |-> "" ]

\* the workers that may serve requests of the same link at the same time
Workers == {1, 2}

\* a worker's request: how far it is, the row as its session loaded it, the
\* file it named, the timestamps other workers read since it began; commits
\* lists the worker and the path of each commit, begun counts the requests,
\* coincided tells whether two of them read the same timestamp
NoAudioRequest ==
    [pc |-> "idle", old |-> None, text |-> None, path |-> None, seen |-> {}]

NoneInFlight ==
    [ req |-> [w \in Workers |-> NoAudioRequest], commits |-> <<>>,
      begun |-> 0, coincided |-> FALSE ]

\* no pipeline step run yet
NoRun ==
    [ op |-> "none", outcome |-> "", response |-> None,
      request |-> <<"", None, None>>, unlink_ok |-> TRUE, times |-> 0 ]

\* the identities that log in
Emails == {"ann", "bob"}

Passwords == {"right", "wrong"}

\* get_password_hash, as far as verify_password tells hashes apart
Hash(password) == <<"hash", password>>

\* a row whose password_hash is not set (an account made without a password)
NoHash == [password_hash |-> None, last_login |-> None]

\* no row with this email
NoAccount == [password_hash |-> <<"no row">>, last_login |-> None]

\* ann signed up with a password and has not logged in; bob has no row
Accounts ==
    [ e \in Emails |->
        IF e = "ann" THEN [password_hash |-> Hash("right"), last_login |-> None]
        ELSE NoAccount ]

\* no login request made
NoLogin ==
    [ email |-> "", password |-> "", status |-> 0, access_token |-> None,
      authenticated |-> FALSE ]

\* no window open for the email
NoWindow == [opened |-> -1, granted |-> 0]

\* login_attempts = {} at import
AuthIdle ==
    /\ login_attempts = {}
    /\ utcnow = 0
    /\ accounts = Accounts
    /\ login_reply = NoLogin
    /\ windows = [e \in Emails |-> NoWindow]

\* nothing in progress
ServiceIdle ==
    /\ call = NoCall
    /\ inflight = NoneInFlight
    /\ ran = NoRun
    /\ AuthIdle

\* script_writer = ScriptWriter() at import, no request answered yet
ScriptIdle ==
    /\ script_writer = ScriptWriter(TRUE, FALSE)
    /\ fetched = NoPage
    /\ scraped = NotScraped
    /\ called = ""
    /\ body = None
    /\ cache_url = None

PipelineIdle ==
    /\ elevenlabs_key = TRUE
    /\ user = NewUser
    /\ link = NewLink
    /\ files = {}
    /\ clock = 0
    /\ last = NoRequest
    /\ slot_history = "fresh"

PipelineInit ==
    /\ elevenlabs_key \in BOOLEAN
    /\ user = NewUser
    /\ link = NewLink
    /\ files = {}
    /\ clock = 0
    /\ last = NoRequest
    /\ slot_history = "fresh"

----------------------------------------------------------------------------
(* app.py: POST /api/links/{link_id}/select-script *)

\* request.get('script_type'): "" stands for an absent or empty value
ScriptTypes == {"", "brief", "standard", "conversational", "bogus"}

HiText == <<"h", "i">>

YoText == <<"y", "o">>

\* request.get('custom_text') and request.get('script')
RequestTexts == {None, <<>>, <<" ">>, HiText, YoText}

Variations == {"brief", "standard", "conversational"}

\* a plausible slip: each key reads the column of the next one
VariationTextShifted(script_type) ==
    CASE script_type = "brief" -> link.script_standard
      [] script_type = "standard" -> link.script_conversational
      [] script_type = "conversational" -> link.script_brief

\* the variation column the elif chain of select_script_for_link reads
VariationText(script_type) ==
    CASE script_type = "brief" -> link.script_brief
      [] script_type = "standard" -> link.script_standard
      [] script_type = "conversational" -> link.script_conversational

\* the text the if/elif chain of select_script_for_link assigns
ChosenScript(script_type, custom_text, script) ==
    IF Truthy(script) THEN script
    ELSE IF Truthy(custom_text) THEN custom_text
    ELSE VariationText(script_type)

select_script_for_link(script_type, custom_text, script) ==
    LET chosen == ChosenScript(script_type, custom_text, script)
    IN  /\ IF script_type = "" /\ ~Truthy(custom_text) /\ ~Truthy(script)
           THEN Reject("select_script", 400, "script_required", NoRequest.req)
           ELSE IF ~Truthy(script) /\ ~Truthy(custom_text)
                       /\ script_type \notin Variations
           THEN Reject("select_script", 400, "invalid_script_type", NoRequest.req)
           ELSE /\ link' = [link EXCEPT !.selected_script = chosen,
                                        !.voice_message_text = chosen]
                \* db.commit() has run when len(link.selected_script) is
                \* logged: len(None) raises TypeError, answered 500
                /\ last' = IF chosen = None
                           THEN Response("select_script", 500, "type_error", "",
                                         "none", None, NoRequest.req)
                           ELSE Response("select_script", 200, "", "",
                                         "none", None, NoRequest.req)
                /\ UNCHANGED <<elevenlabs_key, user, files, clock, slot_history>>
        \* "selected_script": link.selected_script, read back from the row
        /\ body' = IF last'.status = 200 THEN link'.selected_script ELSE None

----------------------------------------------------------------------------
(* voice_clone.py and app.py: POST /api/links/{link_id}/generate-audio *)

SynthOutcomes ==
    {"ok", "empty_body", "http_error", "transport_error", "stream_error"}

\* a plausible slip: True is returned whatever happened after the request
\* was sent, the file being there or not
ReportSuccessAlways(outcome) ==
    [success |-> TRUE, written |-> outcome \in {"ok", "empty_body", "stream_error"}]

\* AudioGenerator.generate_audio: [success, written], written telling
\* whether open(output_path, 'wb') has created the file
generate_voice_audio(outcome) ==
    CASE outcome = "ok" -> [success |-> TRUE, written |-> TRUE]
      [] outcome = "empty_body" -> [success |-> TRUE, written |-> TRUE]
      [] outcome = "http_error" -> [success |-> FALSE, written |-> FALSE]
      [] outcome = "transport_error" -> [success |-> FALSE, written |-> FALSE]
      [] outcome = "stream_error" -> [success |-> FALSE, written |-> TRUE]

\* a plausible slip: the previous file is never removed
KeepOldAudio(fs, old, unlink_ok) == fs

\* "Delete old audio if exists" of generate_audio_for_link: the unlink is
\* inside try/except, its failure is logged and the request goes on
DeleteOldAudio(fs, old, unlink_ok) ==
    IF Truthy(old) /\ old \in fs /\ unlink_ok THEN fs \ {old} ELSE fs

UnlinkOutcome(fs, old, unlink_ok) ==
    IF Truthy(old) /\ old \in fs
    THEN (IF unlink_ok THEN "ok" ELSE "failed")
    ELSE "none"

\* the slot's history after a generate_audio that answered 200
HistoryAfterGenerate(h, unlink) ==
    IF h = "mixed" THEN "mixed"
    ELSE IF unlink = "failed" \/ h = "gen_kept" THEN "gen_kept"
    ELSE "gen_clean"

generate_audio_for_link(outcome, unlink_ok) ==
    LET text == link.voice_message_text
        audio_path == LinkVoicePath(clock + 1, "mp3")
        old == link.voice_message_audio
        r == generate_voice_audio(outcome)
        written == IF r.written THEN files \cup {audio_path} ELSE files
        unlink == UnlinkOutcome(written, old, unlink_ok)
    IN  IF ~elevenlabs_key
        THEN Reject("generate_audio", 500, "not_configured", NoRequest.req)
        ELSE IF ~Truthy(user.voice_clone_id)
        THEN Reject("generate_audio", 400, "no_voice_clone", NoRequest.req)
        ELSE IF ~Truthy(text)
        THEN Reject("generate_audio", 400, "no_script", NoRequest.req)
        ELSE IF Strip(text) = <<>>
        THEN Reject("generate_audio", 400, "empty_script", NoRequest.req)
        ELSE /\ clock < MaxClock
             /\ clock' = clock + 1
             /\ UNCHANGED <<elevenlabs_key, user>>
             /\ IF ~r.success
                THEN /\ files' = written
                     /\ last' = Response("generate_audio", 500, "synthesis_failed",
                                         outcome, "none", None, NoRequest.req)
                     /\ slot_history' = "mixed"
                     /\ UNCHANGED link
                ELSE IF audio_path \notin written
                THEN /\ files' = written
                     /\ last' = Response("generate_audio", 500, "file_not_created",
                                         outcome, "none", None, NoRequest.req)
                     /\ slot_history' = "mixed"
                     /\ UNCHANGED link
                ELSE /\ files' = DeleteOldAudio(written, old, unlink_ok)
                     /\ link' = [link EXCEPT !.voice_message_audio = audio_path,
                                             !.voice_message_text = text]
                     /\ last' = Response("generate_audio", 200, "", outcome,
                                         unlink, audio_path, NoRequest.req)
                     /\ slot_history' = HistoryAfterGenerate(slot_history, unlink)

----------------------------------------------------------------------------
(* app.py: POST /api/links/{link_id}/record-voice *)

AudioTypes == {"audio/webm", "audio/mpeg"}

ContentTypes == {"audio/webm", "text/plain"}

\* content_type and content_type.startswith('audio/')
IsAudio(content_type) == content_type \in AudioTypes

RecordMaxBytes == 5242880

RecordSizes == {RecordMaxBytes, RecordMaxBytes + 1}

VoiceTexts == {HiText, YoText}

record_voice_for_link(content_type, size, text, unlink_ok) ==
    LET filename == LinkVoicePath(clock + 1, "webm")
        old == link.voice_message_audio
        written == files \cup {filename}
        unlink == UnlinkOutcome(written, old, unlink_ok)
        req == <<content_type, <<size>>>>
    IN  IF ~IsAudio(content_type)
        THEN Reject("record_voice", 400, "invalid_type", req)
        ELSE IF size > RecordMaxBytes
        THEN Reject("record_voice", 400, "too_large", req)
        ELSE /\ clock < MaxClock
             /\ clock' = clock + 1
             /\ UNCHANGED <<elevenlabs_key, user>>
             /\ IF unlink = "failed"
                \* old_audio_path.unlink() is not guarded: the exception
                \* reaches "except Exception" and is answered 500
                THEN /\ files' = written
                     /\ last' = Response("record_voice", 500, "save_failed", "",
                                         unlink, filename, req)
                     /\ slot_history' = "mixed"
                     /\ UNCHANGED link
                ELSE /\ files' = DeleteOldAudio(written, old, unlink_ok)
                     /\ link' = [link EXCEPT !.voice_message_text = text,
                                             !.voice_message_audio = filename]
                     /\ last' = Response("record_voice", 200, "", "",
                                         unlink, filename, req)
                     /\ slot_history' = "mixed"

----------------------------------------------------------------------------
(* VoiceAIService (voice_ai.py), as app.py uses it *)

AiOutcomes == {"ok", "no_audio", "error"}

\* the path generate_with_voice_clone(text, voice_id, user_id, purpose) names
AiVoicePath(purpose, ts) == <<"ai_voices", purpose, ts, "mp3">>

\* VoiceAIService.delete_audio_file(path): removes the file, best-effort
delete_audio_file(fs, path, delete_ok) ==
    IF delete_ok THEN fs \ {path} ELSE fs

\* VoiceAIService.generate_with_voice_clone: the path of the file it wrote,
\* None when it produced no audio or raised
generate_with_voice_clone(outcome, purpose, ts) ==
    IF outcome = "ok" THEN AiVoicePath(purpose, ts) ELSE None

----------------------------------------------------------------------------
(* app.py: POST /api/links/{link_id}/generate-ai-voice,                    *)
(*         POST /api/voice/generate-link/{username}/{link_id},             *)
(*         DELETE /api/voice/link/{username}/{link_id},                    *)
(*         POST /api/voice/generate-welcome/{username}                     *)

\* the body the two link endpoints share: delete the old file, generate,
\* and only then update the row
GenerateLinkVoice(op, text, delete_ok, outcome) ==
    LET old == link.voice_message_audio
        deleted == IF Truthy(old) THEN delete_audio_file(files, old, delete_ok)
                   ELSE files
        unlink == IF ~Truthy(old) THEN "none"
                  ELSE IF delete_ok THEN "ok" ELSE "failed"
        audio_path == generate_with_voice_clone(outcome, "link_1", clock + 1)
    IN  IF ~Truthy(user.voice_clone_id)
        THEN Reject(op, 400, "no_voice_clone", NoRequest.req)
        ELSE /\ clock < MaxClock
             /\ clock' = clock + 1
             /\ slot_history' = "mixed"
             /\ UNCHANGED <<elevenlabs_key, user>>
             /\ IF ~Truthy(audio_path)
                THEN /\ files' = deleted
                     /\ last' = Response(op, 500, "voice_failed", outcome,
                                         unlink, None, NoRequest.req)
                     /\ UNCHANGED link
                ELSE /\ files' = deleted \cup {audio_path}
                     /\ link' = [link EXCEPT !.voice_message_text = text,
                                             !.voice_message_audio = audio_path]
                     /\ last' = Response(op, 200, "", outcome,
                                         unlink, audio_path, NoRequest.req)

generate_ai_voice_for_link(text, delete_ok, outcome) ==
    GenerateLinkVoice("generate_ai_voice", text, delete_ok, outcome)

generate_link_voice(text, delete_ok, outcome) ==
    GenerateLinkVoice("generate_link_voice", text, delete_ok, outcome)

delete_link_voice(delete_ok) ==
    LET old == link.voice_message_audio
    IN  IF Truthy(old)
        THEN /\ files' = delete_audio_file(files, old, delete_ok)
             /\ link' = [link EXCEPT !.voice_message_text = None,
                                     !.voice_message_audio = None]
             /\ last' = Response("delete_link_voice", 200, "", "",
                                 IF delete_ok THEN "ok" ELSE "failed",
                                 None, NoRequest.req)
             /\ slot_history' = "mixed"
             /\ UNCHANGED <<elevenlabs_key, user, clock>>
        ELSE /\ last' = Response("delete_link_voice", 200, "", "",
                                 "none", None, NoRequest.req)
             /\ UNCHANGED <<elevenlabs_key, user, link, files, clock,
                            slot_history>>

generate_welcome_message(text, delete_ok, outcome) ==
    LET old == user.welcome_message_audio
        deleted == IF Truthy(old) THEN delete_audio_file(files, old, delete_ok)
                   ELSE files
        unlink == IF ~Truthy(old) THEN "none"
                  ELSE IF delete_ok THEN "ok" ELSE "failed"
        audio_path == generate_with_voice_clone(outcome, "welcome", clock + 1)
    IN  IF ~Truthy(user.voice_clone_id)
        THEN Reject("generate_welcome", 400, "no_voice_clone", NoRequest.req)
        ELSE /\ clock < MaxClock
             /\ clock' = clock + 1
             /\ UNCHANGED <<elevenlabs_key, link, slot_history>>
             /\ IF ~Truthy(audio_path)
                THEN /\ files' = deleted
                     /\ last' = Response("generate_welcome", 500, "voice_failed",
                                         outcome, unlink, None, NoRequest.req)
                     /\ UNCHANGED user
                ELSE /\ files' = deleted \cup {audio_path}
                     /\ user' = [user EXCEPT !.welcome_message_text = text,
                                             !.welcome_message_audio = audio_path]
                     /\ last' = Response("generate_welcome", 200, "", outcome,
                                         unlink, audio_path, NoRequest.req)

----------------------------------------------------------------------------
(* voice_clone.py and app.py: POST /api/voice/clone (onboarding) *)

V1 == <<"v", "1">>

V2 == <<"v", "2">>

VoiceIds == {V1, V2}

CloneOutcomes == {"ok", "ok_no_id", "ok_empty_id", "http_error", "exception"}

\* a plausible slip: the status code is not looked at, the id given back
\* whatever the response was
VoiceIdUnchecked(outcome, voice_id) ==
    IF outcome \in {"ok", "http_error"} THEN voice_id ELSE None

\* VoiceCloneManager.create_voice_clone through create_voice_from_sample:
\* result.get('voice_id') on status 200, None otherwise
create_voice_from_sample(outcome, voice_id) ==
    CASE outcome = "ok" -> voice_id
      [] outcome = "ok_no_id" -> None
      [] outcome = "ok_empty_id" -> <<>>
      [] outcome = "http_error" -> None
      [] outcome = "exception" -> None

OnboardingMinBytes == 100000

OnboardingMaxBytes == 10000000

TenKB == 10 * 1024

OnboardingSizes ==
    {TenKB, OnboardingMinBytes - 1, OnboardingMinBytes,
     OnboardingMaxBytes, OnboardingMaxBytes + 1}

\* a plausible slip: the upper limit is not checked
OnboardingSizeErrorNoMax(size) ==
    IF size < OnboardingMinBytes THEN "too_short" ELSE ""

\* the size validation of create_voice_clone_onboarding: "" when in the band
OnboardingSizeError(size) ==
    IF size < OnboardingMinBytes THEN "too_short"
    ELSE IF size > OnboardingMaxBytes THEN "too_large"
    ELSE ""

create_voice_clone_onboarding(content_type, size, outcome, provider_id) ==
    LET req == <<content_type, <<size>>>>
        sample_path == VoiceSamplePath(clock + 1)
        voice_id == create_voice_from_sample(outcome, provider_id)
    IN  IF ~elevenlabs_key
        THEN Reject("clone_onboarding", 500, "not_configured", req)
        ELSE IF ~IsAudio(content_type)
        THEN Reject("clone_onboarding", 400, "invalid_type", req)
        ELSE IF OnboardingSizeError(size) # ""
        THEN Reject("clone_onboarding", 400, OnboardingSizeError(size), req)
        ELSE /\ clock < MaxClock
             /\ clock' = clock + 1
             /\ files' = files \cup {sample_path}
             /\ UNCHANGED <<elevenlabs_key, link, slot_history>>
             /\ IF ~Truthy(voice_id)
                THEN /\ last' = Response("clone_onboarding", 500, "clone_failed",
                                         outcome, "none", sample_path, req)
                     /\ UNCHANGED user
                ELSE /\ user' = [user EXCEPT !.voice_clone_id = voice_id,
                                             !.voice_sample_path = sample_path]
                     /\ last' = Response("clone_onboarding", 200, "", outcome,
                                         "none", sample_path, req)

----------------------------------------------------------------------------
(* app.py: POST /api/voice/clone/{username} (1 to 3 samples) *)

MaxSamples == 3

SampleMinBytes == 50000

SampleMaxBytes == 3000000

SampleSizes ==
    {TenKB, SampleMinBytes - 1, SampleMinBytes, SampleMaxBytes, SampleMaxBytes + 1}

\* the uploads tried: no sample, each single sample, pairs and triples with
\* the first out-of-band sample in each position, and four samples
SampleLists ==
    {<<>>} \cup {<<z>> : z \in SampleSizes}
        \cup { <<SampleMinBytes, SampleMaxBytes>>,
               <<SampleMinBytes, TenKB>>,
               <<SampleMaxBytes + 1, TenKB>>,
               <<TenKB, SampleMaxBytes + 1>>,
               <<SampleMinBytes, SampleMaxBytes, SampleMinBytes>>,
               <<SampleMinBytes, SampleMaxBytes, SampleMinBytes - 1>>,
               <<SampleMinBytes, SampleMinBytes, SampleMinBytes, SampleMinBytes>>,
               <<TenKB, SampleMinBytes, SampleMinBytes, SampleMinBytes>> }

\* the size validation of the sample loop: the error of the first sample out
\* of the band, "" when every sample is in it
SampleSizeError(sizes) ==
    LET bad == {k \in 1..Len(sizes) :
                    sizes[k] < SampleMinBytes \/ sizes[k] > SampleMaxBytes}
    IN  IF bad = {} THEN ""
        ELSE IF sizes[SetMin(bad)] < SampleMinBytes THEN "too_short"
        ELSE "too_large"

MultiOutcomes == {"ok", "ok_no_paths", "ok_no_id", "ok_empty_id", "none", "error"}

\* VoiceAIService.create_voice_clone: the voice_id of the dict it returns,
\* None when it returns nothing or raises
VoiceAICloneId(outcome, provider_id) ==
    CASE outcome \in {"ok", "ok_no_paths"} -> provider_id
      [] outcome = "ok_empty_id" -> <<>>
      [] OTHER -> None

create_voice_clone(sizes, outcome, provider_id) ==
    LET req == <<"audio/webm", sizes>>
        voice_id == VoiceAICloneId(outcome, provider_id)
        sample_path == VoiceSamplePath(clock + 1)
    IN  IF Len(sizes) = 0
        THEN Reject("clone_samples", 400, "no_samples", req)
        ELSE IF Len(sizes) > MaxSamples
        THEN Reject("clone_samples", 400, "too_many", req)
        ELSE IF SampleSizeError(sizes) # ""
        THEN Reject("clone_samples", 400, SampleSizeError(sizes), req)
        ELSE /\ clock < MaxClock
             /\ clock' = clock + 1
             /\ UNCHANGED <<elevenlabs_key, link, slot_history>>
             /\ IF ~Truthy(voice_id)
                THEN /\ last' = Response("clone_samples", 500, "clone_failed",
                                         outcome, "none", None, req)
                     /\ UNCHANGED <<user, files>>
                ELSE IF outcome = "ok_no_paths"
                \* the row is committed, then VoiceCloneResponse(sample_path=
                \* None) fails validation inside the try: answered 500
                THEN /\ user' = [user EXCEPT !.voice_clone_id = voice_id]
                     /\ last' = Response("clone_samples", 500, "response_error",
                                         outcome, "none", None, req)
                     /\ UNCHANGED files
                ELSE /\ user' = [user EXCEPT !.voice_clone_id = voice_id,
                                             !.voice_sample_path = sample_path]
                     /\ files' = files \cup {sample_path}
                     /\ last' = Response("clone_samples", 200, "", outcome,
                                         "none", sample_path, req)

----------------------------------------------------------------------------
(* app.py: POST /api/links/{link_id}/generate-scripts,                     *)
(*         PUT /api/users/{username}/links/{link_id},                      *)
(*         POST /api/links/scrape-content                                  *)

\* answers of the network to the content fetch of a request
PageCourse ==
    [ status |-> "ok",
      title |-> <<" ", "C", "O", "U", "R", "S", "E", " ">>,
      meta |-> <<"A", " ", "s", "i", "m", "p", "l", "e", " ", "e", "x", "a",
          "m", "p", "l", "e", " ", "p", "a", "g", "e">>,
      text |-> <<"B", "u", "y", " ", "n", "o", "w">> ]

PagePlain == [status |-> "ok", title |-> None, meta |-> None,
    text |-> <<"a">>]

PageDown == [NoPage EXCEPT !.status = "timeout"]

RequestPages ==
    {PageCourse} \cup {[NoPage EXCEPT !.status = f] : f \in FetchFailures}

\* answers of the text-generation provider: three segments, two
ThreeScripts == <<"S", "C", "R", "I", "P", "T", " ", "1", ":", " ", "a",
    "\n", "S", "C", "R", "I", "P", "T", " ", "2", ":", " ", "b", "\n", "S",
    "C", "R", "I", "P", "T", " ", "3", ":", " ", "c">>

TwoScripts == <<"S", "C", "R", "I", "P", "T", " ", "1", ":", " ", "b", "\n",
    "\n", "S", "C", "R", "I", "P", "T", " ", "2", ":", " ", "a">>

TextResponses == {ThreeScripts, TwoScripts}

\* _generate_with_openai_multi / _generate_with_anthropic_multi: the content
\* comes back, or the request or the decoding raises (made a ValueError)
TextOutcomes == {"ok", "error"}

\* a plausible slip: the variations are read one position further
ScriptAtNext(scripts, k) ==
    IF Len(scripts) > k THEN scripts[k + 1].script ELSE <<>>

\* scripts_list[k]['script'] if len(scripts_list) > k else ''
ScriptAt(scripts, k) ==
    IF Len(scripts) >= k THEN scripts[k].script ELSE <<>>

\* scripts_list[k]['word_count'] if len(scripts_list) > k else 0
WordCountAt(scripts, k) ==
    IF Len(scripts) >= k THEN scripts[k].word_count ELSE 0

\* scripts_array of the response
ScriptsArray(scripts) ==
    [k \in 1..NumOptions |->
        [script |-> ScriptAt(scripts, k), word_count |-> WordCountAt(scripts,
            k)]]

\* a plausible slip: the content is fetched whether cached or not
NeverCached(scraped_content) == FALSE

\* a plausible slip: a summary of the type line alone counts as no content
CachedIfMoreThanType(scraped_content) ==
    Truthy(scraped_content) /\ Contains(scraped_content, <<"\n">>)

\* the test of "Step 1": not (not link.scraped_content)
IsCached(scraped_content) == Truthy(scraped_content)

\* "Step 1": the content dict of the request, NotScraped on a cache hit
EnsureContent(page) ==
    IF IsCached(link.scraped_content) THEN NotScraped
    ELSE scrape_link_content(link.url, page)

\* a plausible slip: storing the content drops the variations made before
SaveContentDroppingVariations(row, summary) ==
    [row EXCEPT !.scraped_content = summary,
                !.script_brief = None,
                !.script_standard = None,
                !.script_conversational = None]

\* link.scraped_content = content.get('context_summary', ''); db.commit():
\* on a cache hit the row keeps its content
SaveContent(row, summary) == [row EXCEPT !.scraped_content = summary]

\* a plausible slip: storing new variations resets the selection made among
\* the old ones
SaveScriptsResettingSelection(row, scripts) ==
    [row EXCEPT !.script_brief = ScriptAt(scripts, 1),
                !.script_standard = ScriptAt(scripts, 2),
                !.script_conversational = ScriptAt(scripts, 3),
                !.selected_script = None,
                !.voice_message_text = None]

\* "Save scripts to link": the three columns, then db.commit()
SaveScripts(row, scripts) ==
    [row EXCEPT !.script_brief = ScriptAt(scripts, 1),
                !.script_standard = ScriptAt(scripts, 2),
                !.script_conversational = ScriptAt(scripts, 3)]

\* the handler, result being EnsureContent(page) and scripts what
\* generate_pitch_scripts returns for the provider's response
GenerateScripts(page, outcome, response, result, scripts) ==
    LET cached == IsCached(link.scraped_content)
        summary == IF cached THEN link.scraped_content
                   ELSE result.context_summary
        provider == script_writer.provider
    IN  /\ fetched' = IF cached THEN NoPage ELSE page
        /\ scraped' = result
        /\ cache_url' = IF cached THEN cache_url ELSE link.url
        /\ UNCHANGED <<script_writer, elevenlabs_key, user, files, clock,
                       slot_history>>
        /\ IF provider = "none"
           \* generate_pitch_scripts raises ValueError before any request;
           \* the scraped content has been committed
           THEN /\ link' = SaveContent(link, summary)
                /\ called' = ""
                /\ body' = None
                /\ last' = Response("generate_scripts", 500,
                    "not_configured", "",
                                    "none", None, NoRequest.req)
                /\ UNCHANGED parse_vars
           ELSE IF outcome # "ok"
           THEN /\ link' = SaveContent(link, summary)
                /\ called' = provider
                /\ body' = None
                /\ last' = Response("generate_scripts", 500, "provider_error",
                                    outcome, "none", None, NoRequest.req)
                /\ UNCHANGED parse_vars
           ELSE /\ link' = SaveScripts(SaveContent(link, summary), scripts)
                /\ called' = provider
                /\ content' = response
                /\ scripts_list' = scripts
                /\ gen_state' = "ok"
                /\ body' = ScriptsArray(scripts)
                /\ last' = Response("generate_scripts", 200, "", outcome,
                                    "none", None, NoRequest.req)

generate_scripts_for_link_variations(page, outcome, response) ==
    \E result \in {EnsureContent(page)},
       scripts \in {parse_multiple_scripts(Strip(response), NumOptions)} :
        GenerateScripts(page, outcome, response, result, scripts)

\* LinkCreate bodies of the update requests
LinkUpdates ==
    { [title |-> TitleA, url |-> UrlPlain, description |-> None],
      [title |-> TitleB, url |-> UrlShop, description |-> <<"d">>] }

\* update_link; the platform column, derived from the URL by a function of
\* platform_utils, is read by none of the handlers here and is left out
update_link(request) ==
    /\ link' = [link EXCEPT
                   !.title = request.title,
                   !.url = request.url,
                   !.description = IF Truthy(request.description)
                                   THEN request.description
                                   ELSE link.description]
    /\ last' = Response("update_link", 200, "", "", "none", None,
        NoRequest.req)
    /\ UNCHANGED <<elevenlabs_key, user, files, clock, slot_history>>
    /\ UNCHANGED <<parse_vars, script_vars>>

\* scrape_link_content_endpoint: url of the request, link_id given or not
scrape_link_content_endpoint(url, with_link, page) ==
    IF ~Truthy(url)
    THEN /\ Reject("scrape_content", 400, "url_required", NoRequest.req)
         /\ UNCHANGED <<parse_vars, script_vars>>
    ELSE \E result \in {scrape_link_content(url, page)} :
             /\ fetched' = page
             /\ scraped' = result
             /\ link' = IF with_link
                        THEN [link EXCEPT !.scraped_content = result.context_summary]
                        ELSE link
             /\ cache_url' = IF with_link THEN url ELSE cache_url
             /\ last' = Response("scrape_content", 200, "", "", "none", None,
                                 NoRequest.req)
             /\ UNCHANGED <<elevenlabs_key, user, files, clock, slot_history>>
             /\ UNCHANGED <<parse_vars, script_writer, called, body>>

----------------------------------------------------------------------------
(* The specifications *)

\* a request of the voice pipeline: its response carries no script text,
\* and it touches neither the parser nor the script writer
NoBody ==
    /\ body' = None
    /\ UNCHANGED <<parse_vars, script_writer, fetched, scraped, called, cache_url>>
    /\ UNCHANGED service_vars

\* the pipeline of one link: selection, voice identity, the audio slots
Next ==
    \/ \E st \in ScriptTypes, ct \in {None, <<>>, YoText}, sc \in {None, <<" ">>, HiText} :
           select_script_for_link(st, ct, sc) /\ UNCHANGED parse_vars
               /\ UNCHANGED <<script_writer, fetched, scraped, called, cache_url>>
               /\ UNCHANGED service_vars
    \/ \E o \in {"ok", "http_error"} :
           create_voice_clone_onboarding("audio/webm", OnboardingMinBytes, o, V1)
               /\ NoBody
    \/ \E o \in SynthOutcomes, u \in BOOLEAN :
           generate_audio_for_link(o, u) /\ NoBody
    \/ \E ct \in ContentTypes, sz \in RecordSizes, u \in BOOLEAN :
           record_voice_for_link(ct, sz, YoText, u) /\ NoBody
    \/ \E d \in BOOLEAN, o \in AiOutcomes :
           generate_ai_voice_for_link(HiText, d, o) /\ NoBody
    \/ \E d \in BOOLEAN, o \in AiOutcomes :
           generate_link_voice(HiText, d, o) /\ NoBody
    \/ \E d \in BOOLEAN :
           delete_link_voice(d) /\ NoBody
    \/ \E d \in BOOLEAN, o \in AiOutcomes :
           generate_welcome_message(HiText, d, o) /\ NoBody

Init == ParseIdle /\ PipelineInit /\ ScriptIdle /\ ServiceIdle

Spec == Init /\ [][Next]_vars

\* the two voice-identity endpoints over the whole band of sample sizes
CloneNext ==
    \/ \E ct \in ContentTypes, sz \in OnboardingSizes,
          o \in CloneOutcomes, v \in VoiceIds :
           create_voice_clone_onboarding(ct, sz, o, v) /\ NoBody
    \/ \E ss \in SampleLists, o \in MultiOutcomes, v \in VoiceIds :
           create_voice_clone(ss, o, v) /\ NoBody

SpecClone == Init /\ [][CloneNext]_vars

ResponseInit == ParseInit /\ PipelineIdle /\ ScriptIdle /\ ServiceIdle

SpecParse == ResponseInit /\ [][ParseResponse]_vars

----------------------------------------------------------------------------
(* Pages the extraction is applied to *)

\* n one-letter words separated by single spaces
WordsText(n) == [i \in 1..(2 * n - 1) |-> IF i % 2 = 1 THEN "a" ELSE " "]

\* word counts around 0 and around the preview limit
WordCounts ==
    (0..MaxExtraWords)
        \cup ((PreviewWords - MaxExtraWords)..(PreviewWords + MaxExtraWords))

LongTexts ==
    {WordsText(n) : n \in WordCounts}
        \cup {WordsText(n) \o Ellipsis : n \in WordCounts \ {0}}

KeywordTexts ==
    { <<" ", " ", "C", "o", "u", "r", "s", "e", " ", "\n", "\n", " ", "B",
        "u", "y", " ", "n", "o", "w", " ", " ">>,
      <<"b", "u", "y", " ", " ", "n", "o", "w", "\n", "r", "e", "a", "d">>,
      <<"v", "i", "d", "e", "o">>,
      <<"C", "o", "a", "c", "h", "i", "n", "g", " ", " ", "s", "u", "b", "s",
          "c", "r", "i", "b", "e">> }

PageTexts == LongTexts \cup KeywordTexts

PageTitles == {None, <<" ", "C", "O", "U", "R", "S", "E", " ">>, <<"B", "u",
    "y", " ", "n", "o", "w">>, <<"M", "y", " ", "b", "l", "o", "g">>}

PageMetas == {None, <<>>, <<"A", " ", "s", "i", "m", "p", "l", "e", " ", "e",
    "x", "a", "m", "p", "l", "e", " ", "p", "a", "g", "e">>, <<"w", "e", "e",
    "k", "l", "y", " ", "d", "i", "g", "e", "s", "t">>}

OkPages ==
    [status : {"ok"}, title : PageTitles, meta : PageMetas, text : PageTexts]

FailedPages == {[NoPage EXCEPT !.status = f] : f \in FetchFailures}

Pages == OkPages \cup FailedPages

\* a link with some URL, the network's answer to the fetch pending
ScrapeInit ==
    /\ ParseIdle
    /\ elevenlabs_key = TRUE
    /\ user = NewUser
    /\ \E u \in Urls : link = [NewLink EXCEPT !.url = u]
    /\ files = {}
    /\ clock = 0
    /\ last = NoRequest
    /\ slot_history = "fresh"
    /\ script_writer = ScriptWriter(TRUE, FALSE)
    /\ \E page \in Pages : fetched = page
    /\ scraped = NotScraped
    /\ called = ""
    /\ body = None
    /\ cache_url = None
    /\ ServiceIdle

\* scrape_link_content(link.url)
ScrapeLinkContent ==
    /\ scraped = NotScraped
    /\ scraped' = scrape_link_content(link.url, fetched)
    /\ UNCHANGED <<parse_vars, pipeline_vars>>
    /\ UNCHANGED <<script_writer, fetched, called, body, cache_url>>
    /\ UNCHANGED service_vars

SpecScrape == ScrapeInit /\ [][ScrapeLinkContent]_vars

\* a process started with any of the two text-generation keys set or not
ScriptsInit ==
    /\ ParseIdle
    /\ PipelineIdle
    /\ \E o \in BOOLEAN, a \in BOOLEAN : script_writer = ScriptWriter(o, a)
    /\ fetched = NoPage
    /\ scraped = NotScraped
    /\ called = ""
    /\ body = None
    /\ cache_url = None
    /\ ServiceIdle

\* the content and the variations of one link
ScriptsNext ==
    \/ \E page \in RequestPages, o \in TextOutcomes, r \in TextResponses :
           generate_scripts_for_link_variations(page, o, r)
               /\ UNCHANGED service_vars
    \/ \E request \in LinkUpdates :
           update_link(request) /\ UNCHANGED service_vars
    \/ \E url \in {None, UrlShop}, w \in BOOLEAN :
           scrape_link_content_endpoint(url, w, PagePlain)
               /\ UNCHANGED service_vars

SpecScripts == ScriptsInit /\ [][ScriptsNext]_vars

\* script_type, custom_text and script of the select-script requests
SelectRequests ==
    {<<st, None, None>> : st \in ScriptTypes}
        \cup {<<"", YoText, None>>, <<"brief", <<>>, HiText>>,
              <<"bogus", YoText, <<>>>>, <<"", <<>>, <<>>>>}

\* the variations generated or not, and the selection among them
SelectNext ==
    \/ \E o \in TextOutcomes, r \in TextResponses :
           generate_scripts_for_link_variations(PageDown, o, r)
               /\ UNCHANGED service_vars
    \/ \E q \in SelectRequests :
           select_script_for_link(q[1], q[2], q[3]) /\ UNCHANGED parse_vars
               /\ UNCHANGED <<script_writer, fetched, scraped, called, cache_url>>
               /\ UNCHANGED service_vars

SpecSelect == Init /\ [][SelectNext]_vars

\* the owner has a voice, the script writer has either key or none
VariationsInit ==
    /\ ParseIdle
    /\ ServiceIdle
    /\ elevenlabs_key = TRUE
    /\ user = [NewUser EXCEPT !.voice_clone_id = V1]
    /\ link = NewLink
    /\ files = {}
    /\ clock = 0
    /\ last = NoRequest
    /\ slot_history = "fresh"
    /\ \E o \in BOOLEAN, a \in BOOLEAN : script_writer = ScriptWriter(o, a)
    /\ fetched = NoPage
    /\ scraped = NotScraped
    /\ called = ""
    /\ body = None
    /\ cache_url = None

\* select-script bodies: the third variation, a text of the owner's
VariationRequests == {<<"conversational", None, None>>, <<"", YoText, None>>}

\* the variations generated again and again among selections and audio
VariationsNext ==
    \/ \E page \in {PageDown, PagePlain}, o \in TextOutcomes,
          r \in TextResponses :
           generate_scripts_for_link_variations(page, o, r)
               /\ UNCHANGED service_vars
    \/ \E q \in VariationRequests :
           select_script_for_link(q[1], q[2], q[3]) /\ UNCHANGED parse_vars
               /\ UNCHANGED <<script_writer, fetched, scraped, called, cache_url>>
               /\ UNCHANGED service_vars
    \/ generate_audio_for_link("ok", TRUE) /\ NoBody

SpecVariations == VariationsInit /\ [][VariationsNext]_vars

----------------------------------------------------------------------------
(* The remote calls of generate-scripts and generate-audio, second by second *)

\* EnhancedScraper.__init__(timeout=10): requests.get(..., timeout=self.timeout)
FetchTimeout == 10

\* requests.post(url, headers=headers, json=data, timeout=30)
TextTimeout == 30

\* the requests calls a handler waits on
SuspensionPoints == {"fetch", "text", "synth"}

\* the calls given a timeout argument: AudioGenerator.generate_audio posts
\* with stream=True and no timeout, and requests then waits without limit
TimedPoints == {"fetch", "text"}

Timeout(at) == IF at = "fetch" THEN FetchTimeout ELSE TextTimeout

\* a link whose owner has a voice identity and whose script is selected
WaitInit ==
    /\ ParseIdle
    /\ ScriptIdle
    /\ ServiceIdle
    /\ elevenlabs_key = TRUE
    /\ \E v \in {None, V1} : user = [NewUser EXCEPT !.voice_clone_id = v]
    /\ link = [NewLink EXCEPT !.selected_script = HiText,
                              !.voice_message_text = HiText]
    /\ files = {}
    /\ clock = 0
    /\ last = NoRequest
    /\ slot_history = "fresh"

\* the request waits or moves on: nothing the handlers write has changed
Waiting ==
    UNCHANGED <<parse_vars, pipeline_vars, script_vars, inflight, ran,
                auth_vars>>

\* the request goes on to position at
Goes(op, at, page, outcome) ==
    /\ call' = [op |-> op, at |-> at, waited |-> 0, page |-> page,
                outcome |-> outcome]
    /\ Waiting

\* generate_pitch_scripts is entered with the content of the page: without a
\* provider it raises at once, otherwise the provider is posted to
EnterText(page) ==
    IF script_writer.provider = "none"
    THEN Goes("generate_scripts", "answer", page, "error")
    ELSE Goes("generate_scripts", "text", page, "")

\* generate_scripts_for_link_variations up to its first remote call
BeginGenerateScripts ==
    /\ call.at = "idle"
    /\ IF IsCached(link.scraped_content)
       THEN EnterText(NoPage)
       ELSE Goes("generate_scripts", "fetch", NoPage, "")

\* the checks of generate_audio_for_link that precede generate_voice_audio
ReachesSynthesis ==
    /\ elevenlabs_key
    /\ Truthy(user.voice_clone_id)
    /\ Truthy(link.voice_message_text)
    /\ Strip(link.voice_message_text) # <<>>

\* generate_audio_for_link up to its remote call
BeginGenerateAudio ==
    /\ call.at = "idle"
    /\ clock < MaxClock
    /\ IF ReachesSynthesis
       THEN Goes("generate_audio", "synth", NoPage, "")
       ELSE Goes("generate_audio", "answer", NoPage, "ok")

\* a second passes and the remote side has not answered
Tick ==
    /\ call.at \in SuspensionPoints
    /\ call.waited < MaxWait
    /\ call.at \in TimedPoints => call.waited < Timeout(call.at)
    /\ call' = [call EXCEPT !.waited = @ + 1]
    /\ Waiting

\* the page, or an error of the connection or of the status, arrives
FetchResponds(page) ==
    /\ call.at = "fetch"
    /\ page.status # "timeout"
    /\ EnterText(page)

\* requests raises Timeout, a RequestException scrape_page_content catches
FetchTimesOut ==
    /\ call.at = "fetch"
    /\ call.waited = Timeout("fetch")
    /\ EnterText(PageDown)

\* the text-generation provider answers
TextResponds(outcome) ==
    /\ call.at = "text"
    /\ Goes("generate_scripts", "answer", call.page, outcome)

\* requests raises Timeout, re-raised as ValueError
TextTimesOut ==
    /\ call.at = "text"
    /\ call.waited = Timeout("text")
    /\ Goes("generate_scripts", "answer", call.page, "timeout")

\* the speech-synthesis provider answers
SynthResponds(outcome) ==
    /\ call.at = "synth"
    /\ Goes("generate_audio", "answer", NoPage, outcome)

\* the rest of the handler, with what its remote calls came to
Answer(response, unlink_ok) ==
    /\ call.at = "answer"
    /\ call' = NoCall
    /\ UNCHANGED <<inflight, ran, auth_vars>>
    /\ IF call.op = "generate_scripts"
       THEN generate_scripts_for_link_variations(call.page, call.outcome,
                                                 response)
       ELSE /\ generate_audio_for_link(call.outcome, unlink_ok)
            /\ UNCHANGED <<parse_vars, script_vars>>

WaitNext ==
    \/ BeginGenerateScripts
    \/ BeginGenerateAudio
    \/ Tick
    \/ \E page \in {PagePlain, [NoPage EXCEPT !.status = "http_error"]} :
           FetchResponds(page)
    \/ FetchTimesOut
    \/ \E o \in TextOutcomes : TextResponds(o)
    \/ TextTimesOut
    \/ \E o \in {"ok", "http_error"} : SynthResponds(o)
    \/ Answer(ThreeScripts, TRUE)

\* time passes and a timer that has run out fires; the remote side owes nothing
SpecWaitFair ==
    /\ WaitInit
    /\ [][WaitNext]_vars
    /\ WF_vars(Tick)
    /\ WF_vars(FetchTimesOut)
    /\ WF_vars(TextTimesOut)

----------------------------------------------------------------------------
(* app.py: generate-audio requests of one link served by two workers *)

\* the link has a selected script and maybe an audio file, its owner a voice
RaceInit ==
    /\ ParseIdle
    /\ ScriptIdle
    /\ ServiceIdle
    /\ elevenlabs_key = TRUE
    /\ user = [NewUser EXCEPT !.voice_clone_id = V1]
    /\ \E old \in {None, LinkVoicePath(0, "mp3")} :
           /\ link = [NewLink EXCEPT !.selected_script = HiText,
                                     !.voice_message_text = HiText,
                                     !.voice_message_audio = old]
           /\ files = IF old = None THEN {} ELSE {old}
    /\ clock = 0
    /\ last = NoRequest
    /\ slot_history = "fresh"

\* what the steps of a request leave alone
RaceFrame ==
    UNCHANGED <<parse_vars, script_vars, call, ran, auth_vars,
                elevenlabs_key, user, slot_history>>

\* db.query(Link)...first() and the checks: the session keeps the row as it
\* is now, and the handler reads voice_message_audio from that copy later
LoadLink(w) ==
    /\ inflight.req[w].pc = "idle"
    /\ ReachesSynthesis
    /\ inflight' = [inflight EXCEPT
                       !.req[w] =
                           [pc |-> "loaded", old |-> link.voice_message_audio,
                            text |-> link.voice_message_text, path |-> None,
                            seen |-> {}],
                       !.begun = @ + 1]
    /\ UNCHANGED <<link, files, clock, last>>
    /\ RaceFrame

\* a worker that reads datetime.now() may get the value another worker got
\* while this one was already in its request: the two reads can coincide
Stamps(w) == inflight.req[w].seen \cup {clock + 1}

\* audio_filename from datetime.now(), generate_voice_audio, exists()
Synthesize(w, outcome, ts) ==
    LET audio_path == LinkVoicePath(ts, "mp3")
        r == generate_voice_audio(outcome)
        written == IF r.written THEN files \cup {audio_path} ELSE files
        failed == ~r.success \/ audio_path \notin written
    IN  /\ inflight.req[w].pc = "loaded"
        /\ ts \in Stamps(w)
        /\ clock < MaxClock
        /\ clock' = IF ts > clock THEN ts ELSE clock
        /\ files' = written
        /\ inflight' = [inflight EXCEPT
               !.coincided = @ \/ ts <= clock,
               !.req =
               [x \in Workers |->
                   IF x = w
                   THEN [@[x] EXCEPT
                            !.pc = IF failed THEN "idle" ELSE "written",
                            !.path = IF failed THEN None ELSE audio_path,
                            !.seen = {}]
                   ELSE IF @[x].pc = "loaded" /\ ts > clock
                   THEN [@[x] EXCEPT !.seen = @ \cup {ts}]
                   ELSE @[x]]]
        /\ last' = IF ~r.success
                   THEN Response("generate_audio", 500, "synthesis_failed",
                                 outcome, "none", None, NoRequest.req)
                   ELSE IF failed
                   THEN Response("generate_audio", 500, "file_not_created",
                                 outcome, "none", None, NoRequest.req)
                   ELSE last
        /\ UNCHANGED link
        /\ RaceFrame

\* "Delete old audio if exists", the old path being the loaded one
DeleteLoadedAudio(w, unlink_ok) ==
    /\ inflight.req[w].pc = "written"
    /\ files' = DeleteOldAudio(files, inflight.req[w].old, unlink_ok)
    /\ inflight' = [inflight EXCEPT !.req[w].pc = "deleted"]
    /\ UNCHANGED <<link, clock, last>>
    /\ RaceFrame

\* link.voice_message_audio = ...; link.voice_message_text = text; db.commit()
CommitAudio(w) ==
    /\ inflight.req[w].pc = "deleted"
    /\ link' = [link EXCEPT !.voice_message_audio = inflight.req[w].path,
                            !.voice_message_text = inflight.req[w].text]
    /\ inflight' = [inflight EXCEPT !.req[w].pc = "idle",
                                    !.commits =
                                        Append(@, <<w, inflight.req[w].path>>)]
    /\ last' = Response("generate_audio", 200, "", "ok", "none",
                        inflight.req[w].path, NoRequest.req)
    /\ UNCHANGED <<files, clock>>
    /\ RaceFrame

RaceNext ==
    \/ \E w \in Workers : LoadLink(w)
    \/ \E w \in Workers, o \in {"ok", "http_error"}, ts \in 1..(MaxClock + 1) :
           Synthesize(w, o, ts)
    \/ \E w \in Workers, u \in BOOLEAN : DeleteLoadedAudio(w, u)
    \/ \E w \in Workers : CommitAudio(w)

SpecRace == RaceInit /\ [][RaceNext]_vars

----------------------------------------------------------------------------
(* The three pipeline steps run and run again with the same inputs *)

\* the owner has a voice identity; nothing generated or selected yet
RerunInit ==
    /\ ParseIdle
    /\ ScriptIdle
    /\ ServiceIdle
    /\ elevenlabs_key = TRUE
    /\ user = [NewUser EXCEPT !.voice_clone_id = V1]
    /\ link = NewLink
    /\ files = {}
    /\ clock = 0
    /\ last = NoRequest
    /\ slot_history = "fresh"

\* the step and its inputs are noted; times tells whether the step before
\* was the same step with the same inputs
Runs(step) ==
    /\ ran' = [step EXCEPT !.times =
                  IF [ran EXCEPT !.times = 0] = step THEN 2 ELSE 1]
    /\ UNCHANGED <<call, inflight, auth_vars>>

\* select-script bodies of the reruns
RerunRequests == {<<"standard", None, None>>, <<"", YoText, None>>}

RerunNext ==
    \/ \E page \in {PageDown, PagePlain}, o \in TextOutcomes :
           /\ generate_scripts_for_link_variations(page, o, ThreeScripts)
           /\ Runs([NoRun EXCEPT !.op = "generate_scripts", !.outcome = o,
                                 !.response = ThreeScripts])
    \/ \E q \in RerunRequests :
           /\ select_script_for_link(q[1], q[2], q[3])
           /\ UNCHANGED parse_vars
           /\ UNCHANGED <<script_writer, fetched, scraped, called, cache_url>>
           /\ Runs([NoRun EXCEPT !.op = "select_script", !.request = q])
    \/ \E o \in {"ok", "http_error"}, u \in BOOLEAN :
           /\ generate_audio_for_link(o, u)
           /\ UNCHANGED <<parse_vars, script_vars>>
           /\ Runs([NoRun EXCEPT !.op = "generate_audio", !.outcome = o,
                                 !.unlink_ok = u])

SpecRerun == RerunInit /\ [][RerunNext]_vars

----------------------------------------------------------------------------
(* auth.py and app.py: POST /api/auth/login and its rate limit *)

\* check_rate_limit(email, max_attempts = 5, window_minutes = 15)
max_attempts == 5

window_minutes == 15

\* login_attempts[email] = (attempts, first_attempt)
Entry(email, attempts, first_attempt) ==
    [email |-> email, attempts |-> attempts, first_attempt |-> first_attempt]

\* email in login_attempts
Limited(attempts_of, email) == \E t \in attempts_of : t.email = email

\* login_attempts[email]
EntryOf(attempts_of, email) == CHOOSE t \in attempts_of : t.email = email

\* login_attempts[email] = value
Store(attempts_of, email, attempts, first_attempt) ==
    {t \in attempts_of : t.email # email}
        \cup {Entry(email, attempts, first_attempt)}

\* a call that would start the window again when it turns an attempt down
check_rate_limit_extending(attempts_of, email, now) ==
    IF Limited(attempts_of, email)
    THEN LET t == EntryOf(attempts_of, email) IN
         IF now - t.first_attempt > window_minutes
         THEN [ok |-> TRUE, attempts |-> Store(attempts_of, email, 1, now)]
         ELSE IF t.attempts >= max_attempts
         THEN [ok |-> FALSE,
               attempts |-> Store(attempts_of, email, t.attempts, now)]
         ELSE [ok |-> TRUE,
               attempts |-> Store(attempts_of, email, t.attempts + 1,
                                  t.first_attempt)]
    ELSE [ok |-> TRUE, attempts |-> Store(attempts_of, email, 1, now)]

\* a call that would let through one attempt more than the limit
check_rate_limit_off_by_one(attempts_of, email, now) ==
    IF Limited(attempts_of, email)
    THEN LET t == EntryOf(attempts_of, email) IN
         IF now - t.first_attempt > window_minutes
         THEN [ok |-> TRUE, attempts |-> Store(attempts_of, email, 1, now)]
         ELSE IF t.attempts > max_attempts
         THEN [ok |-> FALSE, attempts |-> attempts_of]
         ELSE [ok |-> TRUE,
               attempts |-> Store(attempts_of, email, t.attempts + 1,
                                  t.first_attempt)]
    ELSE [ok |-> TRUE, attempts |-> Store(attempts_of, email, 1, now)]

\* check_rate_limit: the value returned and login_attempts as the call
\* leaves it
check_rate_limit(attempts_of, email, now) ==
    IF Limited(attempts_of, email)
    THEN LET t == EntryOf(attempts_of, email) IN
         IF now - t.first_attempt > window_minutes
         THEN [ok |-> TRUE, attempts |-> Store(attempts_of, email, 1, now)]
         ELSE IF t.attempts >= max_attempts
         THEN [ok |-> FALSE, attempts |-> attempts_of]
         ELSE [ok |-> TRUE,
               attempts |-> Store(attempts_of, email, t.attempts + 1,
                                  t.first_attempt)]
    ELSE [ok |-> TRUE, attempts |-> Store(attempts_of, email, 1, now)]

\* reset_rate_limit: del login_attempts[email] if it is there
reset_rate_limit(attempts_of, email) == {t \in attempts_of : t.email # email}

\* verify_password(password, password_hash)
verify_password(password, password_hash) == password_hash = Hash(password)

\* authenticate_user: the row is found, has a password hash and the
\* password matches it
authenticate_user(email, password) ==
    /\ accounts[email] # NoAccount
    /\ Truthy(accounts[email].password_hash)
    /\ verify_password(password, accounts[email].password_hash)

\* create_access_token(data = {"sub": user.username})
AccessToken(email) == <<"token", email>>

\* the window of an email as the calls that returned True show it: a call
\* let through more than window_minutes after the window opened, or with no
\* window open, opens one; a successful login closes it
Counted(email, ok, success) ==
    windows' =
        [ windows EXCEPT ![email] =
            IF success THEN NoWindow
            ELSE IF ~ok THEN @
            ELSE IF @ = NoWindow \/ utcnow - @.opened > window_minutes
            THEN [opened |-> utcnow, granted |-> 1]
            ELSE [@ EXCEPT !.granted = @ + 1] ]

\* what a login request leaves alone
LoginFrame ==
    UNCHANGED <<parse_vars, pipeline_vars, script_vars, call, inflight, ran,
                utcnow>>

\* POST /api/auth/login
login(email, password) ==
    LET checked == check_rate_limit(login_attempts, email, utcnow) IN
    /\ LoginFrame
    /\ IF ~checked.ok
       THEN /\ login_reply' = [ email |-> email, password |-> password,
                                status |-> 429,
                                access_token |-> None,
                                authenticated |-> FALSE ]
            /\ login_attempts' = checked.attempts
            /\ Counted(email, FALSE, FALSE)
            /\ UNCHANGED accounts
       ELSE IF ~authenticate_user(email, password)
       THEN /\ login_reply' = [ email |-> email, password |-> password,
                                status |-> 401,
                                access_token |-> None,
                                authenticated |-> TRUE ]
            /\ login_attempts' = checked.attempts
            /\ Counted(email, TRUE, FALSE)
            /\ UNCHANGED accounts
       ELSE /\ login_reply' = [ email |-> email, password |-> password,
                                status |-> 200,
                                access_token |-> AccessToken(email),
                                authenticated |-> TRUE ]
            /\ login_attempts' = reset_rate_limit(checked.attempts, email)
            /\ accounts' = [accounts EXCEPT ![email].last_login = utcnow]
            /\ Counted(email, TRUE, TRUE)

\* a minute passes
Minute ==
    /\ utcnow < MaxNow
    /\ utcnow' = utcnow + 1
    /\ UNCHANGED <<parse_vars, pipeline_vars, script_vars, call, inflight, ran,
                   login_attempts, accounts, login_reply, windows>>

\* bob has no row, or a row without a password hash
LoginInit ==
    /\ ParseIdle /\ PipelineIdle /\ ScriptIdle
    /\ call = NoCall
    /\ inflight = NoneInFlight
    /\ ran = NoRun
    /\ login_attempts = {}
    /\ utcnow = 0
    /\ accounts \in {Accounts, [Accounts EXCEPT !["bob"] = NoHash]}
    /\ login_reply = NoLogin
    /\ windows = [e \in Emails |-> NoWindow]

\* the minutes at which login requests arrive: the first two, and the ones
\* on both sides of the end of a window begun then
RequestMinutes ==
    {0, 1, window_minutes, window_minutes + 1, window_minutes + 2}

LoginNext ==
    \/ \E email \in Emails, password \in Passwords :
          utcnow \in RequestMinutes /\ login(email, password)
    \/ Minute

SpecLogin == LoginInit /\ [][LoginNext]_vars

----------------------------------------------------------------------------
(* The claims *)

\* C1: whatever the provider's response (the empty string, 0, 1, 2 or more
\* than 3 segments), generate_pitch_scripts with num_options = 3 returns a
\* list of exactly 3 entries, each with a 'script' and a 'word_count'.
C1_ExactlyThreeEntries ==
    gen_state = "ok" =>
        /\ Len(scripts_list) = 3
        /\ \A k \in 1..Len(scripts_list) :
               DOMAIN scripts_list[k] = {"script", "word_count"}

\* C1, its case: the empty response has been parsed, every entry is padding
C1_EmptyResponseParsed ==
    /\ gen_state = "ok"
    /\ content = <<>>
    /\ Len(scripts_list) = 3

\* C2: every returned entry, derived from the response or padded, has a
\* word_count equal to the number of whitespace-separated tokens of its own
\* script.
C2_WordCountMatchesScript ==
    gen_state = "ok" =>
        \A k \in 1..Len(scripts_list) :
            scripts_list[k].word_count = Len(Words(scripts_list[k].script))

\* C3 as stated: after n >= 1 successful generate_audio calls in a row on a
\* fresh slot, the slot holds exactly one file, the one the link names.
C3_ExactlyOneSlotFile ==
    slot_history \in {"gen_clean", "gen_kept"} =>
        SlotFiles(files) = {link.voice_message_audio}

\* C3 as amended: after n >= 1 successful generate_audio calls in a row on a
\* fresh slot, the link names the newest file of the slot and that file
\* exists; it is the slot's only file when every unlink of a previous file
\* succeeded, and a previous file is still there only if its unlink failed.
C3_OneFileUnlessUnlinkFailed ==
    /\ slot_history \in {"gen_clean", "gen_kept"} =>
           /\ Truthy(link.voice_message_audio)
           /\ link.voice_message_audio \in files
           /\ \A f \in SlotFiles(files) : f[3] <= link.voice_message_audio[3]
    /\ slot_history = "gen_clean" =>
           SlotFiles(files) = {link.voice_message_audio}
    /\ slot_history = "gen_kept" =>
           SlotFiles(files) # {link.voice_message_audio}

\* C3, its case: a second successful generate_audio has removed the file of
\* the first
C3_SecondGenerationReplaced ==
    /\ slot_history = "gen_clean"
    /\ last.op = "generate_audio"
    /\ last.status = 200
    /\ last.unlink = "ok"
    /\ SlotFiles(files) = {last.path}

\* C4: select_script by variation key on a link whose variation was never
\* generated is refused, and selected_script and voice_message_text keep
\* their values.
C4_UngeneratedVariationRefused ==
    [][\A st \in Variations :
           (select_script_for_link(st, None, None) /\ VariationText(st) = None)
               => /\ last'.status # 200
                  /\ link'.selected_script = link.selected_script
                  /\ link'.voice_message_text = link.voice_message_text]_vars

\* C5: in every reachable state a non-empty link.voice_message_audio and a
\* non-empty user.welcome_message_audio name files that exist under the
\* audio root.
C5_AudioReferencesExist ==
    /\ Truthy(link.voice_message_audio) => link.voice_message_audio \in files
    /\ Truthy(user.welcome_message_audio) => user.welcome_message_audio \in files

SynthFailures == {"http_error", "transport_error", "stream_error"}

\* C6: when the synthesis call of generate_audio fails (non-2xx status or an
\* exception) the request fails, the link's audio path and text keep their
\* values and the file the link names is not deleted; generate_audio writes a
\* new path to the link only after a call that succeeded, and the file of
\* that path exists.
C6_FailedSynthesisKeepsSlot ==
    [][last'.op = "generate_audio" =>
           /\ last'.env \in SynthFailures =>
                  /\ last'.status = 500
                  /\ link' = link
                  /\ link.voice_message_audio \in files
                         => link.voice_message_audio \in files'
           /\ link'.voice_message_audio # link.voice_message_audio =>
                  /\ last'.status = 200
                  /\ last'.env \notin SynthFailures \cup {""}
                  /\ link'.voice_message_audio \in files']_vars

\* C6, its case: the synthesis call failed on a link that had audio
C6_SynthesisFailedOnFilledSlot ==
    /\ last.op = "generate_audio"
    /\ last.env = "http_error"
    /\ last.status = 500
    /\ Truthy(link.voice_message_audio)
    /\ link.voice_message_audio \in files

\* C7: a synthesis response with a success status and an empty body makes
\* generate_audio fail, and no new path is written to the link.
C7_EmptyBodyIsFailure ==
    [][(last'.op = "generate_audio" /\ last'.env = "empty_body") =>
           /\ last'.status # 200
           /\ link'.voice_message_audio = link.voice_message_audio]_vars

\* C8: in generate_audio and in record-voice, a failure to delete the file
\* that occupied the slot does not block creation: the request succeeds and
\* the new path is on the link.
C8_DeletionFailureDoesNotBlock ==
    (last.op \in {"generate_audio", "record_voice"} /\ last.unlink = "failed") =>
        /\ last.status = 200
        /\ link.voice_message_audio = last.path

\* the first sample of sizes outside lo..hi, 0 when there is none
FirstOutOfBand(sizes, lo, hi) ==
    LET bad == {k \in 1..Len(sizes) : sizes[k] < lo \/ sizes[k] > hi}
    IN  IF bad = {} THEN 0 ELSE SetMin(bad)

\* C9: voice-identity creation with a sample outside the band (100000 to
\* 10000000 bytes on the onboarding endpoint, 50000 to 3000000 per sample on
\* the multi-sample endpoint) is refused before any provider call and leaves
\* the owner's row as it was; when the request reaches the size validation
\* (key configured and audio content type on onboarding, 1 to 3 samples on
\* the other) the error is 'too short' for a sample below the band and 'too
\* large' for one above it, by the first such sample, and a sample inside
\* the band is not refused for its size; a 10KB sample is refused as too
\* short.
C9_SizeBandRefusedBeforeProvider ==
    [][/\ last'.op = "clone_onboarding" =>
              LET size == last'.req[2][1]
                  validated == elevenlabs_key /\ IsAudio(last'.req[1])
              IN  /\ (size < 100000 \/ size > 10000000) =>
                         /\ last'.status # 200
                         /\ last'.env = ""
                         /\ user' = user
                  /\ (validated /\ size < 100000) =>
                         (last'.status = 400 /\ last'.detail = "too_short")
                  /\ (validated /\ size > 10000000) =>
                         (last'.status = 400 /\ last'.detail = "too_large")
                  /\ (size >= 100000 /\ size <= 10000000) =>
                         last'.detail \notin {"too_short", "too_large"}
       /\ last'.op = "clone_samples" =>
              LET sizes == last'.req[2]
                  k == FirstOutOfBand(sizes, 50000, 3000000)
                  validated == Len(sizes) \in 1..3
              IN  /\ k # 0 =>
                         /\ last'.status # 200
                         /\ last'.env = ""
                         /\ user' = user
                  /\ (validated /\ k # 0 /\ sizes[k] < 50000) =>
                         (last'.status = 400 /\ last'.detail = "too_short")
                  /\ (validated /\ k # 0 /\ sizes[k] > 3000000) =>
                         (last'.status = 400 /\ last'.detail = "too_large")
                  /\ k = 0 => last'.detail \notin {"too_short", "too_large"}]_vars

\* C9, its case: a 10KB sample was refused as too short on the onboarding
\* endpoint of an owner who has a voice identity
C9_TenKBRefused ==
    /\ last.op = "clone_onboarding"
    /\ last.req = <<"audio/webm", <<10240>>>>
    /\ last.status = 400
    /\ last.detail = "too_short"
    /\ last.env = ""
    /\ Truthy(user.voice_clone_id)

CloneFailures ==
    {"ok_no_id", "ok_empty_id", "http_error", "exception", "none", "error"}

\* C10: when the provider returns a non-empty voice id the owner's
\* voice_clone_id becomes that id, whatever it was before; when the provider
\* call fails (non-success status, exception, missing or empty id) the
\* request fails and voice_clone_id and voice_sample_path keep their values.
C10_IdentityStoredOnlyOnSuccess ==
    [][/\ last'.op = "clone_onboarding" =>
              \A v \in VoiceIds :
                  (/\ last'.env = "ok"
                   /\ create_voice_clone_onboarding(
                          last'.req[1], last'.req[2][1], "ok", v))
                      => user'.voice_clone_id = v
       /\ last'.op = "clone_samples" =>
              \A v \in VoiceIds, o \in {"ok", "ok_no_paths"} :
                  (/\ last'.env = o
                   /\ create_voice_clone(last'.req[2], o, v))
                      => user'.voice_clone_id = v
       /\ (last'.op \in {"clone_onboarding", "clone_samples"}
              /\ last'.env \in {"ok", "ok_no_paths"}) =>
              user'.voice_clone_id \in VoiceIds
       /\ (last'.op \in {"clone_onboarding", "clone_samples"}
              /\ last'.env \in CloneFailures) =>
              /\ last'.status = 500
              /\ user'.voice_clone_id = user.voice_clone_id
              /\ user'.voice_sample_path = user.voice_sample_path]_vars

\* C10, its case: a clone request failed at the provider and the owner's
\* earlier identity is still there
C10_FailedCloneKeepsIdentity ==
    /\ last.op = "clone_onboarding"
    /\ last.env = "http_error"
    /\ last.status = 500
    /\ user.voice_clone_id = V1
    /\ user.voice_sample_path = VoiceSamplePath(1)

\* the priority order of identify_link_type
TypeOrder ==
    <<Course, Coaching, Product, Newsletter, Blog, Video, Social, Website>>

BuyNow == <<"b", "u", "y", " ", "n", "o", "w">>

\* C11: identify_link_type returns a value of the fixed enum, the earliest
\* type, in the order course, coaching, product, newsletter, blog, video,
\* social, website, whose keyword test the lowercased URL, title, description
\* and preview pass; a page with both 'course' and 'buy now' is a course,
\* and a video host's URL is video, not social, when nothing earlier matches.
C11_FirstMatchInOrder ==
    scraped # NotScraped =>
        LET matching == {k \in 1..Len(TypeOrder) :
                             Matches(TypeOrder[k], link.url, scraped)}
            combined == Combined(link.url, scraped)
        IN  /\ scraped.link_type \in LinkTypes
            /\ scraped.link_type = TypeOrder[SetMin(matching)]
            /\ (Contains(combined, Course) /\ Contains(combined, BuyNow))
                   => scraped.link_type = Course
            /\ AnyIn(VideoHosts,
                Lower(link.url)) => scraped.link_type # Social

\* C11, its case: a page whose text has 'course' and 'buy now' was classified
C11_CourseBeatsProduct ==
    /\ scraped # NotScraped
    /\ Contains(Combined(link.url, scraped), Course)
    /\ Contains(Combined(link.url, scraped), BuyNow)
    /\ Matches(Product, link.url, scraped)
    /\ scraped.link_type = Course

\* s.endswith(p)
EndsWith(s, p) == Len(s) >= Len(p) /\ SubSeq(s, Len(s) - Len(p) + 1,
    Len(s)) = p

\* C12 as stated: for a fetched page, preview_text has at most 200 words, ends
\* with the ellipsis if and only if the cleaned text had more than 200 words,
\* and equals the cleaned text when it was not cut.
C12_EllipsisIffTruncated ==
    scraped.full_content # None =>
        LET n == Len(Words(scraped.full_content))
        IN  /\ Len(Words(scraped.preview_text)) <= 200
            /\ EndsWith(scraped.preview_text, Ellipsis) <=> n > 200
            /\ n <= 200 => scraped.preview_text = scraped.full_content

\* C12 as amended: for a fetched page, preview_text has at most 200 words;
\* when the cleaned text has more than 200 words it is the first 200 joined
\* by single spaces with the ellipsis appended, otherwise it equals the
\* cleaned text; so it ends with the ellipsis if and only if the text had
\* more than 200 words or itself ends with the ellipsis.
C12_PreviewIsFirstWords ==
    scraped.full_content # None =>
        LET words == Words(scraped.full_content)
            n == Len(words)
        IN  /\ Len(Words(scraped.preview_text)) <= 200
            /\ n > 200 => scraped.preview_text =
                              Join(SubSeq(words, 1, 200), <<" ">>) \o Ellipsis
            /\ n <= 200 => scraped.preview_text = scraped.full_content
            /\ EndsWith(scraped.preview_text, Ellipsis)
                   <=> (n > 200 \/ EndsWith(scraped.full_content, Ellipsis))

\* C12, its case: a page of 201 words was fetched and its preview cut to 200
C12_PreviewCutAt200 ==
    /\ fetched.status = "ok"
    /\ Len(Words(scraped.full_content)) = 201
    /\ Len(Words(scraped.preview_text)) = 200
    /\ EndsWith(scraped.preview_text, Ellipsis)

\* C13: the script generator's provider is fixed at construction: OpenAI
\* whenever its key is configured, Anthropic only when it alone is
\* configured; a generate-scripts request calls that provider and no other,
\* and when neither key is configured it fails with the not-configured error
\* without any provider call.
C13_ProviderFixedAtConstruction ==
    [][/\ script_writer' = script_writer
       /\ script_writer.openai_api_key => script_writer.provider = "openai"
       /\ (~script_writer.openai_api_key /\ script_writer.anthropic_api_key)
              => script_writer.provider = "anthropic"
       /\ last'.op = "generate_scripts" =>
              /\ script_writer.openai_api_key => called' = "openai"
              /\ called' = "anthropic" =>
                     (~script_writer.openai_api_key
                          /\ script_writer.anthropic_api_key)
              /\ (~script_writer.openai_api_key
                      /\ ~script_writer.anthropic_api_key) =>
                     /\ last'.status = 500
                     /\ last'.detail = "not_configured"
                     /\ called' = ""
                     /\ last'.env = ""]_vars

\* C13, its case: with both keys configured a request was served by OpenAI
C13_BothKeysUseOpenAI ==
    /\ script_writer.openai_api_key
    /\ script_writer.anthropic_api_key
    /\ last.op = "generate_scripts"
    /\ last.status = 200
    /\ called = "openai"

C15_UrlChangeInvalidatesCache ==
    [][/\ (last'.op = "update_link" /\ link'.url # link.url)
              => ~Truthy(link'.scraped_content)
       /\ (last'.op = "generate_scripts" /\ Truthy(link'.scraped_content))
              => cache_url' = link'.url]_vars

\* C16: when the content fetch of a generate-scripts request fails (timeout,
\* connection failure, non-2xx status) the extraction yields empty content,
\* the script generator is still called if one is configured, and when the
\* provider call succeeds three candidates are returned and persisted.
C16_FetchFailureDoesNotAbort ==
    [][(last'.op = "generate_scripts" /\ fetched'.status \in FetchFailures) =>
           /\ scraped'.title = None
           /\ scraped'.meta_description = None
           /\ scraped'.preview_text = None
           /\ scraped'.full_content = None
           /\ script_writer.provider # "none" => called' = script_writer.provider
           /\ last'.env = "ok" =>
                  /\ last'.status = 200
                  /\ Len(body') = 3
                  /\ link'.script_brief = body'[1].script
                  /\ link'.script_standard = body'[2].script
                  /\ link'.script_conversational = body'[3].script]_vars

\* C16, its case: the fetch timed out and three candidates were returned
C16_GeneratedAfterTimeout ==
    /\ last.op = "generate_scripts"
    /\ fetched.status = "timeout"
    /\ last.status = 200
    /\ Len(body) = 3
    /\ link.script_brief = body[1].script

\* C17: after a successful generate-scripts, script_brief, script_standard
\* and script_conversational are the 1st, 2nd and 3rd candidate the generator
\* returned, the response lists the same three texts in the same order, and
\* scraped_content is set.
C17_VariationsInOrder ==
    (last.op = "generate_scripts" /\ last.status = 200) =>
        /\ Len(scripts_list) = 3
        /\ link.script_brief = scripts_list[1].script
        /\ link.script_standard = scripts_list[2].script
        /\ link.script_conversational = scripts_list[3].script
        /\ body = [k \in 1..3 |-> [script |-> scripts_list[k].script,
                                   word_count |-> scripts_list[k].word_count]]
        /\ Truthy(link.scraped_content)

\* C17, its case: the provider's three segments a, b, c were stored in order
C17_ThreeSegmentsStored ==
    /\ last.op = "generate_scripts"
    /\ last.status = 200
    /\ content = ThreeScripts
    /\ link.script_brief = <<"a">>
    /\ link.script_standard = <<"b">>
    /\ link.script_conversational = <<"c">>

\* the select-script request q is one the handler can answer
Selects(q) == select_script_for_link(q[1], q[2], q[3])

\* C18: after every successful select-script (by variation key, by custom
\* text or by direct script text) selected_script and voice_message_text are
\* both the chosen text, the previous selection is overwritten and nothing
\* else of the link changes, and the response returns that same text.
C18_SelectionStored ==
    [][\A q \in SelectRequests :
           (Selects(q) /\ last'.status = 200) =>
               \E chosen \in {q[3], q[2], link.script_brief,
                              link.script_standard, link.script_conversational} :
                   /\ Truthy(q[3]) => chosen = q[3]
                   /\ (~Truthy(q[3]) /\ Truthy(q[2])) => chosen = q[2]
                   /\ (~Truthy(q[3]) /\ ~Truthy(q[2])) =>
                          /\ q[1] = "brief" => chosen = link.script_brief
                          /\ q[1] = "standard" => chosen = link.script_standard
                          /\ q[1] = "conversational" =>
                                 chosen = link.script_conversational
                   /\ link'.selected_script = chosen
                   /\ link'.voice_message_text = chosen
                   /\ body' = chosen
                   /\ link' = [link EXCEPT !.selected_script = chosen,
                                           !.voice_message_text = chosen]]_vars

\* C18, its case: the second generated variation was selected and returned
C18_StandardSelected ==
    /\ last.op = "select_script"
    /\ last.status = 200
    /\ link.script_brief = <<"a">>
    /\ link.selected_script = <<"b">>
    /\ link.voice_message_text = <<"b">>
    /\ body = <<"b">>

\* C19: a select-script with none of script_type, custom_text and script, or
\* with a script_type that is not one of the three variation keys, fails
\* with an error and leaves every field of the link unchanged.
C19_UnknownTypeRejected ==
    [][\A q \in SelectRequests :
           (/\ Selects(q)
            /\ \/ q[1] = "" /\ ~Truthy(q[2]) /\ ~Truthy(q[3])
               \/ q[1] # "" /\ q[1] \notin Variations) =>
               /\ last'.status # 200
               /\ link' = link]_vars

\* C19, as the code has it: a select-script that supplies no text (neither
\* script nor custom_text) and no known variation key fails with status 400
\* and leaves every field of the link unchanged.
C19_NoTextNoKeyRejected ==
    [][\A q \in SelectRequests :
           (Selects(q) /\ ~Truthy(q[3]) /\ ~Truthy(q[2])
                /\ q[1] \notin Variations) =>
               /\ last'.status = 400
               /\ last'.detail \in {"script_required", "invalid_script_type"}
               /\ body' = None
               /\ link' = link]_vars

\* C19, its case: an unknown script_type was rejected on a link that has a
\* selection
C19_RejectedWithSelectionKept ==
    /\ last.op = "select_script"
    /\ last.status = 400
    /\ last.detail = "invalid_script_type"
    /\ link.selected_script = YoText

\* s is empty once trimmed
Blank(s) == \A i \in 1..Len(s) : s[i] \in Whitespace

\* C20: generate-audio fails, makes no synthesis call, writes no file and
\* leaves the link unchanged whenever the owner's voice_clone_id is unset or
\* voice_message_text is unset or empty after trimming (status 400 when the
\* synthesis key is configured); so a generate-audio step puts an audio path
\* on the link only from a state with a voice identity and a non-empty text.
C20_AudioNeedsVoiceAndText ==
    [][last'.op = "generate_audio" =>
        /\ (\/ ~Truthy(user.voice_clone_id)
            \/ link.voice_message_text = None
            \/ Blank(link.voice_message_text)) =>
               /\ last'.status # 200
               /\ elevenlabs_key =>
                      /\ last'.status = 400
                      /\ last'.detail \in {"no_voice_clone", "no_script",
                                           "empty_script"}
               /\ last'.env = ""
               /\ files' = files
               /\ link' = link
        /\ (last'.status = 200
                \/ link'.voice_message_audio # link.voice_message_audio) =>
               /\ Truthy(user.voice_clone_id)
               /\ link.voice_message_text # None
               /\ ~Blank(link.voice_message_text)]_vars

\* C20, its case: with a voice identity set, generate-audio was refused
\* because the selected text is blank
C20_BlankTextRefused ==
    /\ last.op = "generate_audio"
    /\ last.status = 400
    /\ last.detail = "empty_script"
    /\ Truthy(user.voice_clone_id)
    /\ link.voice_message_text = <<" ">>

\* C21: each of the three remote calls (content fetch, text generation,
\* speech synthesis) is bounded by a timeout, so a request that waits on a
\* remote side that never answers eventually gets an error instead of
\* hanging: every generate-scripts and generate-audio request that waits on
\* a remote call eventually waits on none.
C21_EveryCallReturns ==
    (call.at \in SuspensionPoints) ~> (call.at \notin SuspensionPoints)

\* C22: when two generate-audio requests of the same link interleave (and
\* when more do, as long as no two of them read the same timestamp), once
\* none is in progress link.voice_message_audio is the path written by the
\* request that committed last, and that file exists (last write wins).
C22_LastWriteWins ==
    (/\ \A w \in Workers : inflight.req[w].pc = "idle"
     /\ inflight.commits # <<>>
     /\ inflight.begun <= 2 \/ ~inflight.coincided) =>
        /\ link.voice_message_audio =
               inflight.commits[Len(inflight.commits)][2]
        /\ link.voice_message_audio \in files

\* C22, its case: both workers loaded the link with the same old path before
\* either committed, worker 1 committed, then worker 2
C22_BothLoadedBeforeCommit ==
    /\ \A w \in Workers : inflight.req[w].pc = "idle"
    /\ inflight.begun = 2
    /\ Len(inflight.commits) = 2
    /\ inflight.commits[1][1] = 1
    /\ inflight.commits[2][1] = 2
    /\ inflight.req[1].old = LinkVoicePath(0, "mp3")
    /\ inflight.req[2].old = LinkVoicePath(0, "mp3")
    /\ link.voice_message_audio = inflight.commits[2][2]
    /\ inflight.commits[1][2] # inflight.commits[2][2]
    /\ inflight.commits[1][2] \in files

\* C23: re-running a pipeline step (generate-scripts, select-script,
\* generate-audio) with the same inputs and the same provider responses
\* leaves the link record and the audio files as they were after the first
\* run.
C23_RerunChangesNothing ==
    [][ran'.times = 2 => (link' = link /\ files' = files)]_vars

\* C23, as the code has it: a rerun of generate-scripts or select-script
\* leaves the link and the files as they were, whatever the page a new
\* fetch would get; a rerun of generate-audio that succeeds writes a file
\* under a new name and points the link to it, changes no other field of the
\* link, and the previous file is gone when its deletion succeeded; a rerun
\* that fails leaves the link as it was.
C23_RerunKeepsAllButAudioPath ==
    [][ran'.times = 2 =>
        /\ ran'.op \in {"generate_scripts", "select_script"} =>
               (link' = link /\ files' = files)
        /\ ran'.op = "generate_audio" =>
               /\ link' = [link EXCEPT
                              !.voice_message_audio = link'.voice_message_audio]
               /\ last'.status # 200 => link' = link
               /\ last'.status = 200 =>
                      /\ link'.voice_message_audio # link.voice_message_audio
                      /\ link'.voice_message_audio \in files'
                      /\ link'.voice_message_audio \notin files
                      /\ last'.unlink = "ok" =>
                             link.voice_message_audio \notin files']_vars

\* C23, its case: generate-audio ran twice in a row with the same inputs and
\* the link points to the file of the second run
C23_AudioGeneratedTwice ==
    /\ ran.op = "generate_audio"
    /\ ran.times = 2
    /\ last.status = 200
    /\ link.voice_message_audio = LinkVoicePath(2, "mp3")
    /\ LinkVoicePath(1, "mp3") \notin files

\* a step of SpecLogin that is a login request: the time stands still
LoginStep == utcnow' = utcnow

\* the email has reached max_attempts inside its window
RateLimited(email) ==
    \E t \in login_attempts :
        /\ t.email = email
        /\ t.attempts >= max_attempts
        /\ utcnow - t.first_attempt <= window_minutes

\* C24: for every email, at most max_attempts (5) calls of check_rate_limit
\* return True within one window of 15 minutes from the first counted
\* attempt unless a successful login comes between; the stored count never
\* exceeds max_attempts; the first call after the window has passed is let
\* through and restarts the count at 1 with the window starting now; a
\* successful login deletes the entry, and an attempt made with no entry
\* starts a window at 1.
C24_FixedWindowLimit ==
    /\ [](/\ \A e \in Emails : windows[e].granted <= max_attempts
          /\ \A t \in login_attempts : t.attempts <= max_attempts)
    /\ [][LoginStep =>
            LET e == login_reply'.email IN
            /\ (\E t \in login_attempts :
                    /\ t.email = e
                    /\ utcnow - t.first_attempt > window_minutes) =>
                  /\ login_reply'.status # 429
                  /\ login_reply'.status = 401 =>
                        Entry(e, 1, utcnow) \in login_attempts'
            /\ login_reply'.status = 200 => ~Limited(login_attempts', e)
            /\ (~Limited(login_attempts, e) /\ login_reply'.status = 401) =>
                  Entry(e, 1, utcnow) \in login_attempts']_vars

\* bob has used up his five attempts and is turned down, then, more than 15
\* minutes after his first attempt, is let through again with the count at 1
C24_LockedThenWindowRestarted ==
    /\ login_reply.email = "bob"
    /\ login_reply.status = 401
    /\ windows["bob"] = [opened |-> 16, granted |-> 1]
    /\ Entry("bob", 1, 16) \in login_attempts
    /\ Entry("ann", max_attempts, 1) \in login_attempts
    /\ windows["ann"].granted = max_attempts

\* C25: while an email is rate-limited, a login request is turned down with
\* 429 before the credentials are checked, whatever the password: no token
\* is issued, last_login is unchanged, and the entry keeps its count and
\* its window start.
C25_RejectedBeforeCredentials ==
    [][(LoginStep /\ RateLimited(login_reply'.email)) =>
          /\ login_reply'.status = 429
          /\ login_reply'.access_token = None
          /\ ~login_reply'.authenticated
          /\ accounts' = accounts
          /\ login_attempts' = login_attempts]_vars

\* ann, rate-limited since her fifth attempt at minute 0, is turned down at
\* minute 15 with the right password
C25_RightPasswordTurnedDown ==
    /\ login_reply =
          [ email |-> "ann", password |-> "right", status |-> 429,
            access_token |-> None, authenticated |-> FALSE ]
    /\ utcnow = window_minutes
    /\ Entry("ann", max_attempts, 0) \in login_attempts
    /\ accounts["ann"].last_login = None

\* C26: whenever link.voice_message_audio is set, link.voice_message_text
\* is the text that audio was generated from or recorded with. The text
\* belongs to the audio when the audio is stored (generate_audio speaks
\* link.voice_message_text, record-voice and the voice endpoints store
\* their text with the path), so it belongs to it afterwards as long as no
\* request changes the text while the audio stays.
C26_TextStaysWithAudio ==
    [][(/\ Truthy(link.voice_message_audio)
        /\ link'.voice_message_audio = link.voice_message_audio) =>
            link'.voice_message_text = link.voice_message_text]_vars

IsPadding(entry) ==
    /\ StartsWith(entry.script, CheckOut)
    /\ EndsWith(entry.script, ClickToLearnMore)
    /\ entry.word_count = FallbackWordCount

\* the entries of the list derived from the response
Derived == {k \in 1..Len(scripts_list) : ~IsPadding(scripts_list[k])}

\* the non-empty segments between the markers of the stripped response
MarkerSegments == StrippedNonEmpty(ReSplitMarkers(Strip(content)))

\* the non-empty paragraphs of the stripped response
Paragraphs == StrippedNonEmpty(SplitOn(Strip(content), <<"\n", "\n">>))

\* C28: padding fills only the slots that neither split can fill: the
\* number of entries derived from the response is min(3, max(number of
\* non-empty marker segments, number of non-empty paragraphs)), and all
\* padded entries are the same.
C28_PaddingOnlyWhereNoSplitFills ==
    gen_state = "ok" =>
        /\ Cardinality(Derived) =
               Min(NumOptions, Max(Len(MarkerSegments), Len(Paragraphs)))
        /\ \A j, k \in 1..Len(scripts_list) :
               (IsPadding(scripts_list[j]) /\ IsPadding(scripts_list[k])) =>
                   scripts_list[j] = scripts_list[k]

\* the three variation columns of a row
Candidates(row) ==
    <<row.script_brief, row.script_standard, row.script_conversational>>

\* C29: when the provider call of a generate-scripts request fails, or no
\* provider is configured, the request is answered with an error and
\* returns no scripts; script_brief, script_standard, script_conversational,
\* selected_script and voice_message_text keep their values, and the
\* content fetched in that request is stored in scraped_content all the
\* same.
C29_ProviderFailureKeepsScripts ==
    [][(/\ last'.op = "generate_scripts"
        /\ script_writer.provider = "none" \/ last'.env = "error") =>
           /\ last'.status = 500
           /\ body' = None
           /\ Candidates(link') = Candidates(link)
           /\ link'.selected_script = link.selected_script
           /\ link'.voice_message_text = link.voice_message_text
           /\ link'.voice_message_audio = link.voice_message_audio
           /\ Truthy(link'.scraped_content)
           /\ fetched' # NoPage =>
                  link'.scraped_content = scraped'.context_summary]_vars

\* C29, its case: the provider failed in a request that had fetched the
\* page; the content is stored, no variation is, and the selection made
\* before is kept
C29_ContentKeptAfterProviderError ==
    /\ last.op = "generate_scripts"
    /\ last.status = 500
    /\ last.detail = "provider_error"
    /\ fetched = PagePlain
    /\ link.scraped_content = scraped.context_summary
    /\ Candidates(link) = <<None, None, None>>
    /\ link.selected_script = YoText
    /\ link.voice_message_text = YoText

\* C30: a generate-scripts request changes nothing of the link but
\* scraped_content and the three variations: selected_script,
\* voice_message_text and voice_message_audio are as before (so that the
\* selection need not be one of the current variations), and so are the
\* owner's row and the files.
C30_GenerateScriptsFrame ==
    [][last'.op = "generate_scripts" =>
           /\ link' = [link EXCEPT
                          !.scraped_content = link'.scraped_content,
                          !.script_brief = link'.script_brief,
                          !.script_standard = link'.script_standard,
                          !.script_conversational = link'.script_conversational]
           /\ user' = user
           /\ files' = files]_vars

\* C30, its case: new variations were stored while the selection, spoken
\* and stored as audio, is the third variation of the generation before and
\* none of the current three
C30_SelectionNotAmongVariations ==
    /\ last.op = "generate_scripts"
    /\ last.status = 200
    /\ content = TwoScripts
    /\ link.selected_script = <<"c">>
    /\ link.voice_message_text = <<"c">>
    /\ link.voice_message_audio = LinkVoicePath(1, "mp3")
    /\ \A k \in 1..3 : Candidates(link)[k] # link.selected_script

=============================================================================
